---------------------------- MODULE Spec2Model ----------------------------
(***************************************************************************)
(* A model of the blas-ts kernels (Level 1, 2 and 3 BLAS over flat,        *)
(* caller-owned buffers with strides and column-major leading dimensions). *)
(*                                                                         *)
(* A state is one caller: `call` holds the arguments of the call, `mem0`   *)
(* the buffers at entry, `mem` the buffers now (and the value returned),   *)
(* `hist` the routines called so far.  `alt0` and `alt` are a second copy  *)
(* of the caller that runs the same call on buffers that may differ from   *)
(* `mem0` in the part a routine must not read.                             *)
(*                                                                         *)
(* Every kernel is an operator translated loop by loop from its source.    *)
(* Buffers are functions on 0..len-1.                                      *)
(***************************************************************************)
EXTENDS Integers, Sequences, FiniteSets, TLC

VARIABLES call, mem0, mem, alt0, alt, hist

vars == <<call, mem0, mem, alt0, alt, hist>>

(***************************************************************************)
(* Bounds of the model.                                                    *)
(***************************************************************************)
\* Significand width of the modelled floating-point format (53 in the code).
Prec == 6
\* Largest vector length of a Level 1 call.
MaxN == 8
\* Number of buffer fill patterns tried for each operand.
NSeeds == 3
\* Largest length of a vector searched by idamax for which every choice of
\* elements is tried.
MaxTie == 4
\* Largest dimension (m, n, k) of a dgemm or dgemv call.
MaxDim == 2
\* Largest order of a triangular or symmetric matrix, and largest m, n of a
\* dtrmm or dtrsm call.
MaxTri == 3

(***************************************************************************)
(* Loops.  ForUp is `for (i = lo; i < hi; i++)`, ForBy is                  *)
(* `for (i = lo; i < hi; i += by)`, ForDown is `for (i = hi; i >= lo; i--)`*)
(* each threading the loop's state st through body(st, i).                 *)
(***************************************************************************)
RECURSIVE ForUp(_, _, _, _)
ForUp(i, hi, body(_, _), st) ==
    IF i >= hi THEN st ELSE ForUp(i + 1, hi, body, body(st, i))

RECURSIVE ForBy(_, _, _, _, _)
ForBy(i, hi, by, body(_, _), st) ==
    IF i >= hi THEN st ELSE ForBy(i + by, hi, by, body, body(st, i))

RECURSIVE ForDown(_, _, _, _)
ForDown(i, lo, body(_, _), st) ==
    IF i < lo THEN st ELSE ForDown(i - 1, lo, body, body(st, i))

(***************************************************************************)
(* Numbers of the Level 1 kernels, of dgemm, dgemv and of the symmetric    *)
(* routines: integers rounded, after every operation, to Prec significant  *)
(* bits (round to nearest, ties to even), as an IEEE double is to 53, and  *)
(* NaN.                                                                    *)
(***************************************************************************)
Abs(a) == IF a < 0 THEN -a ELSE a

Max(a, b) == IF a < b THEN b ELSE a

RECURSIVE Ulp(_, _)
Ulp(a, s) == IF a < (2 ^ Prec) * s THEN s ELSE Ulp(a, 2 * s)

Fl(a) ==
    IF Abs(a) < 2 ^ Prec THEN a
    ELSE LET s == Ulp(Abs(a), 1)
             q == Abs(a) \div s
             r == Abs(a) % s
             up == (2 * r > s) \/ (2 * r = s /\ q % 2 = 1)
             mag == (IF up THEN q + 1 ELSE q) * s
         IN  IF a < 0 THEN -mag ELSE mag

\* NaN, as an integer no computation of the model reaches: every arithmetic
\* operation with a NaN operand gives NaN (so 0 * NaN is NaN, not 0).
NaN == -(2 ^ 30)

fadd(a, b) == IF a = NaN \/ b = NaN THEN NaN ELSE Fl(a + b)

fsub(a, b) == IF a = NaN \/ b = NaN THEN NaN ELSE Fl(a - b)

fmul(a, b) == IF a = NaN \/ b = NaN THEN NaN ELSE Fl(a * b)

\* The smallest power of two that an added 1 no longer changes.
Big == 2 ^ Prec

(***************************************************************************)
(* Buffers of the model's callers.                                         *)
(***************************************************************************)
Pattern(s, i) ==
    CASE s = 1 -> i + 1
      [] s = 2 -> IF i % 3 = 2 THEN 0 ELSE IF i % 2 = 0 THEN -(i + 2) ELSE i + 2
      [] s = 3 -> IF i = 0 THEN Big ELSE 1
      [] OTHER -> ((s * (i + 1)) % 5) - 2

VecLen(n, inc) == IF n <= 0 THEN 0 ELSE 1 + (n - 1) * Abs(inc)

Vec(s, len) == [i \in 0 .. len - 1 |-> Pattern(s, i)]

Strides == {-2, -1, 1, 2}

Scalars == {-1, 0, 1, 2}

\* Logical element i of a strided vector view (spec section 3).
Elem(buf, n, inc, i) == buf[IF inc > 0 THEN i * inc ELSE (n - 1 - i) * (-inc)]

OnStride(n, inc) == {(IF inc > 0 THEN i * inc ELSE (n - 1 - i) * (-inc)) : i \in 0 .. n - 1}

(***************************************************************************)
(* Level 1.  A kernel's loops thread the record                            *)
(*   [x, y : the buffers;  acc : the running scalar;  ix, iy : the buffer  *)
(*    offsets;  tr : the offsets touched so far, one entry per element]    *)
(* and a kernel returns [x, y, ret, tr].                                   *)
(***************************************************************************)
L1State(x, y) == [x |-> x, y |-> y, acc |-> 0, ix |-> 0, iy |-> 0, tr |-> <<>>]

L1Ret(st, ret) == [x |-> st.x, y |-> st.y, ret |-> ret, tr |-> st.tr]

\* Start offset of a strided traversal: `inc < 0 ? (-n + 1) * inc : 0`.
StartOff(n, inc) == IF inc < 0 THEN (-n + 1) * inc ELSE 0

L1Start(n, x, incx, y, incy) ==
    [L1State(x, y) EXCEPT !.ix = StartOff(n, incx), !.iy = StartOff(n, incy)]

---------------------------------------------------------------------------
\* daxpy: y[i] = y[i] + alpha * x[i] at one index of the unit-stride path.
daxpy_at(st, alpha, i) ==
    [st EXCEPT !.y[i] = fadd(st.y[i], fmul(alpha, st.x[i])),
               !.tr = Append(@, <<i, i>>)]

\* daxpy, both increments 1: clean-up loop of n % 4, then blocks of 4.
daxpy_unit(n, alpha, x, y) ==
    LET m == n % 4
        s1 == IF m # 0
              THEN ForUp(0, m, LAMBDA st, i : daxpy_at(st, alpha, i), L1State(x, y))
              ELSE L1State(x, y)
    IN  IF n < 4 THEN s1
        ELSE ForBy(m, n, 4,
                   LAMBDA st, i :
                       daxpy_at(daxpy_at(daxpy_at(daxpy_at(st, alpha, i),
                                alpha, i + 1), alpha, i + 2), alpha, i + 3),
                   s1)

\* daxpy_strided with the sign of incx ignored: x is walked forward from 0.
daxpy_strided_forward(n, alpha, x, incx, y, incy) ==
    ForUp(0, n,
          LAMBDA st, i :
              [st EXCEPT !.y[st.iy] = fadd(st.y[st.iy], fmul(alpha, st.x[st.ix])),
                         !.ix = @ + Abs(incx),
                         !.iy = @ + incy,
                         !.tr = Append(@, <<st.ix, st.iy>>)],
          [L1Start(n, x, incx, y, incy) EXCEPT !.ix = 0])

\* daxpy, unequal increments or equal increments not equal to 1.
daxpy_strided(n, alpha, x, incx, y, incy) ==
    ForUp(0, n,
          LAMBDA st, i :
              [st EXCEPT !.y[st.iy] = fadd(st.y[st.iy], fmul(alpha, st.x[st.ix])),
                         !.ix = @ + incx,
                         !.iy = @ + incy,
                         !.tr = Append(@, <<st.ix, st.iy>>)],
          L1Start(n, x, incx, y, incy))

daxpy(n, alpha, x, incx, y, incy) ==
    IF n <= 0 THEN L1Ret(L1State(x, y), 0)
    ELSE IF alpha = 0 THEN L1Ret(L1State(x, y), 0)
    ELSE IF incx = 1 /\ incy = 1 THEN L1Ret(daxpy_unit(n, alpha, x, y), 0)
    ELSE L1Ret(daxpy_strided(n, alpha, x, incx, y, incy), 0)

---------------------------------------------------------------------------
dscal_at(st, alpha, i) ==
    [st EXCEPT !.x[i] = fmul(alpha, st.x[i]), !.tr = Append(@, i)]

\* dscal, increment 1: clean-up loop of n % 5, then blocks of 5.
dscal_unit(n, alpha, x) ==
    LET m == n % 5
        s1 == IF m # 0
              THEN ForUp(0, m, LAMBDA st, i : dscal_at(st, alpha, i), L1State(x, <<>>))
              ELSE L1State(x, <<>>)
    IN  IF m # 0 /\ n < 5 THEN s1
        ELSE ForBy(m, n, 5,
                   LAMBDA st, i :
                       dscal_at(dscal_at(dscal_at(dscal_at(dscal_at(st, alpha, i),
                                alpha, i + 1), alpha, i + 2), alpha, i + 3), alpha, i + 4),
                   s1)

\* dscal, increment not 1: `for (i = 0; i < n * incx; i += incx)`.
dscal_strided(n, alpha, x, incx) ==
    ForBy(0, n * incx, incx, LAMBDA st, i : dscal_at(st, alpha, i), L1State(x, <<>>))

\* dscal returning at once for alpha == 0 too.
dscal_zero_returns(n, alpha, x, incx) ==
    IF n <= 0 \/ incx <= 0 \/ alpha = 1 \/ alpha = 0 THEN L1Ret(L1State(x, <<>>), 0)
    ELSE IF incx = 1 THEN L1Ret(dscal_unit(n, alpha, x), 0)
    ELSE L1Ret(dscal_strided(n, alpha, x, incx), 0)

dscal(n, alpha, x, incx) ==
    IF n <= 0 \/ incx <= 0 \/ alpha = 1 THEN L1Ret(L1State(x, <<>>), 0)
    ELSE IF incx = 1 THEN L1Ret(dscal_unit(n, alpha, x), 0)
    ELSE L1Ret(dscal_strided(n, alpha, x, incx), 0)

---------------------------------------------------------------------------
dcopy_at(st, i) ==
    [st EXCEPT !.y[i] = st.x[i], !.tr = Append(@, <<i, i>>)]

\* dcopy, both increments 1: clean-up loop of n % 7, then blocks of 7.
dcopy_unit(n, x, y) ==
    LET m == n % 7
        s1 == IF m # 0
              THEN ForUp(0, m, LAMBDA st, i : dcopy_at(st, i), L1State(x, y))
              ELSE L1State(x, y)
    IN  IF m # 0 /\ n < 7 THEN s1
        ELSE ForBy(m, n, 7,
                   LAMBDA st, i :
                       dcopy_at(dcopy_at(dcopy_at(dcopy_at(dcopy_at(dcopy_at(dcopy_at(
                           st, i), i + 1), i + 2), i + 3), i + 4), i + 5), i + 6),
                   s1)

\* dcopy_strided with the signs of the increments ignored: both vectors are
\* walked forward from offset 0.
dcopy_strided_fromzero(n, x, incx, y, incy) ==
    ForUp(0, n,
          LAMBDA st, i :
              [st EXCEPT !.y[st.iy] = st.x[st.ix],
                         !.ix = @ + Abs(incx),
                         !.iy = @ + Abs(incy),
                         !.tr = Append(@, <<st.ix, st.iy>>)],
          L1State(x, y))

dcopy_strided(n, x, incx, y, incy) ==
    ForUp(0, n,
          LAMBDA st, i :
              [st EXCEPT !.y[st.iy] = st.x[st.ix],
                         !.ix = @ + incx,
                         !.iy = @ + incy,
                         !.tr = Append(@, <<st.ix, st.iy>>)],
          L1Start(n, x, incx, y, incy))

dcopy(n, x, incx, y, incy) ==
    IF n <= 0 THEN L1Ret(L1State(x, y), 0)
    ELSE IF incx = 1 /\ incy = 1 THEN L1Ret(dcopy_unit(n, x, y), 0)
    ELSE L1Ret(dcopy_strided(n, x, incx, y, incy), 0)

---------------------------------------------------------------------------
\* temp = x[i]; x[i] = y[i]; y[i] = temp.
dswap_at(st, i) ==
    [st EXCEPT !.x[i] = st.y[i], !.y[i] = st.x[i], !.tr = Append(@, <<i, i>>)]

\* dswap, both increments 1: clean-up loop of n % 3, then blocks of 3.
dswap_unit(n, x, y) ==
    LET m == n % 3
        s1 == IF m # 0
              THEN ForUp(0, m, LAMBDA st, i : dswap_at(st, i), L1State(x, y))
              ELSE L1State(x, y)
    IN  IF m # 0 /\ n < 3 THEN s1
        ELSE ForBy(m, n, 3,
                   LAMBDA st, i : dswap_at(dswap_at(dswap_at(st, i), i + 1), i + 2),
                   s1)

dswap_strided(n, x, incx, y, incy) ==
    ForUp(0, n,
          LAMBDA st, i :
              [st EXCEPT !.x[st.ix] = st.y[st.iy],
                         !.y[st.iy] = st.x[st.ix],
                         !.ix = @ + incx,
                         !.iy = @ + incy,
                         !.tr = Append(@, <<st.ix, st.iy>>)],
          L1Start(n, x, incx, y, incy))

dswap(n, x, incx, y, incy) ==
    IF n <= 0 THEN L1Ret(L1State(x, y), 0)
    ELSE IF incx = 1 /\ incy = 1 THEN L1Ret(dswap_unit(n, x, y), 0)
    ELSE L1Ret(dswap_strided(n, x, incx, y, incy), 0)

---------------------------------------------------------------------------
\* ddot, both increments 1: clean-up loop of n % 5, then blocks of 5 with
\* dtemp = dtemp + x[i]*y[i] + ... + x[i+4]*y[i+4], summed left to right.
ddot_unit(n, x, y) ==
    LET m == n % 5
        s1 == IF m # 0
              THEN ForUp(0, m,
                         LAMBDA st, i :
                             [st EXCEPT !.acc = fadd(@, fmul(x[i], y[i])),
                                        !.tr = Append(@, <<i, i>>)],
                         L1State(x, y))
              ELSE L1State(x, y)
    IN  IF m # 0 /\ n < 5 THEN s1
        ELSE ForBy(m, n, 5,
                   LAMBDA st, i :
                       [st EXCEPT
                          !.acc = fadd(fadd(fadd(fadd(fadd(@,
                                      fmul(x[i], y[i])),
                                      fmul(x[i + 1], y[i + 1])),
                                      fmul(x[i + 2], y[i + 2])),
                                      fmul(x[i + 3], y[i + 3])),
                                      fmul(x[i + 4], y[i + 4])),
                          !.tr = @ \o << <<i, i>>, <<i + 1, i + 1>>, <<i + 2, i + 2>>,
                                         <<i + 3, i + 3>>, <<i + 4, i + 4>> >>],
                   s1)

ddot_strided(n, x, incx, y, incy) ==
    ForUp(0, n,
          LAMBDA st, i :
              [st EXCEPT !.acc = fadd(@, fmul(x[st.ix], y[st.iy])),
                         !.ix = @ + incx,
                         !.iy = @ + incy,
                         !.tr = Append(@, <<st.ix, st.iy>>)],
          L1Start(n, x, incx, y, incy))

ddot(n, x, incx, y, incy) ==
    IF n <= 0 THEN L1Ret(L1State(x, y), 0)
    ELSE LET st == IF incx = 1 /\ incy = 1 THEN ddot_unit(n, x, y)
                   ELSE ddot_strided(n, x, incx, y, incy)
         IN  L1Ret(st, st.acc)

---------------------------------------------------------------------------
\* dasum, increment 1: clean-up loop of n % 6, then blocks of 6 with
\* dtemp += |x[i]| + ... + |x[i+5]|: the six terms are summed left to
\* right and their sum is then added to dtemp.
dasum_unit(n, x) ==
    LET m == n % 6
        s1 == IF m # 0
              THEN ForUp(0, m,
                         LAMBDA st, i :
                             [st EXCEPT !.acc = fadd(@, Abs(x[i])),
                                        !.tr = Append(@, i)],
                         L1State(x, <<>>))
              ELSE L1State(x, <<>>)
    IN  IF m # 0 /\ n < 6 THEN s1
        ELSE ForBy(m, n, 6,
                   LAMBDA st, i :
                       [st EXCEPT
                          !.acc = fadd(@, fadd(fadd(fadd(fadd(fadd(
                                      Abs(x[i]), Abs(x[i + 1])), Abs(x[i + 2])),
                                      Abs(x[i + 3])), Abs(x[i + 4])), Abs(x[i + 5]))),
                          !.tr = @ \o <<i, i + 1, i + 2, i + 3, i + 4, i + 5>>],
                   s1)

\* dasum, increment not 1: `for (i = 0; i < n * incx; i += incx)`.
dasum_strided(n, x, incx) ==
    ForBy(0, n * incx, incx,
          LAMBDA st, i : [st EXCEPT !.acc = fadd(@, Abs(x[i])), !.tr = Append(@, i)],
          L1State(x, <<>>))

dasum(n, x, incx) ==
    IF n <= 0 \/ incx <= 0 THEN L1Ret(L1State(x, <<>>), 0)
    ELSE LET st == IF incx = 1 THEN dasum_unit(n, x) ELSE dasum_strided(n, x, incx)
         IN  L1Ret(st, st.acc)

---------------------------------------------------------------------------
\* idamax_scan with `>=` for `>`: the last of equal magnitudes wins.
idamax_scan_last(n, x, incx) ==
    ForUp(1, n,
          LAMBDA st, i :
              LET absval == Abs(x[st.ix])
              IN  IF absval >= st.dmax
                  THEN [st EXCEPT !.acc = i, !.dmax = absval, !.ix = @ + incx,
                                  !.tr = Append(@, st.ix)]
                  ELSE [st EXCEPT !.ix = @ + incx, !.tr = Append(@, st.ix)],
          [acc |-> 0, dmax |-> Abs(x[0]), ix |-> incx, tr |-> <<0>>])

\* idamax: acc is the index found so far, dmax the largest |x| so far.
idamax_scan(n, x, incx) ==
    ForUp(1, n,
          LAMBDA st, i :
              LET absval == Abs(x[st.ix])
              IN  IF absval > st.dmax
                  THEN [st EXCEPT !.acc = i, !.dmax = absval, !.ix = @ + incx,
                                  !.tr = Append(@, st.ix)]
                  ELSE [st EXCEPT !.ix = @ + incx, !.tr = Append(@, st.ix)],
          [acc |-> 0, dmax |-> Abs(x[0]), ix |-> incx, tr |-> <<0>>])

idamax(n, x, incx) ==
    IF n < 1 \/ incx <= 0 THEN L1Ret(L1State(x, <<>>), 0)
    ELSE IF n = 1 THEN L1Ret(L1State(x, <<>>), 0)
    ELSE LET st == idamax_scan(n, x, incx)
         IN  [x |-> x, y |-> <<>>, ret |-> st.acc, tr |-> st.tr]

---------------------------------------------------------------------------
\* drot_at with x overwritten first and y computed from the new x.
drot_at_inplace(st, c, s, px, py) ==
    LET newx == fadd(fmul(c, st.x[px]), fmul(s, st.y[py]))
    IN  [st EXCEPT !.x[px] = newx,
                   !.y[py] = fsub(fmul(c, st.y[py]), fmul(s, newx)),
                   !.tr = Append(@, <<px, py>>)]

\* drot: temp = c*x + s*y; y = c*y - s*x; x = temp, at offsets px and py.
drot_at(st, c, s, px, py) ==
    LET temp == fadd(fmul(c, st.x[px]), fmul(s, st.y[py]))
    IN  [st EXCEPT !.y[py] = fsub(fmul(c, st.y[py]), fmul(s, st.x[px])),
                   !.x[px] = temp,
                   !.tr = Append(@, <<px, py>>)]

drot(n, x, incx, y, incy, c, s) ==
    IF n <= 0 THEN L1Ret(L1State(x, y), 0)
    ELSE IF incx = 1 /\ incy = 1
    THEN L1Ret(ForUp(0, n, LAMBDA st, i : drot_at(st, c, s, i, i), L1State(x, y)), 0)
    ELSE L1Ret(ForUp(0, n,
                     LAMBDA st, i :
                         [drot_at(st, c, s, st.ix, st.iy) EXCEPT !.ix = @ + incx,
                                                                !.iy = @ + incy],
                     L1Start(n, x, incx, y, incy)), 0)

(***************************************************************************)
(* Mode flags (types.ts) and column-major addressing.                      *)
(***************************************************************************)
BLASTranspose == {"NoTranspose", "Transpose", "ConjugateTranspose"}

BLASUplo == {"Upper", "Lower"}

BLASDiag == {"NonUnit", "Unit"}

BLASSide == {"Left", "Right"}

\* A raised Error leaves the buffers b as they are and records the message.
Throw(b, msg) == [b EXCEPT !.err = msg]

\* dgemm_alpha0 with C multiplied by beta also when beta is zero.
dgemm_alpha0_scaled(m, n, beta, C, ldC) ==
    ForUp(0, n, LAMBDA c1, j :
        ForUp(0, m, LAMBDA c, i :
            [c EXCEPT ![i + j * ldC] = fmul(beta, c[i + j * ldC])], c1), C)

(***************************************************************************)
(* dgemm.  Each branch returns the buffer C.                               *)
(***************************************************************************)
\* alpha == 0: C := beta*C, or zero.
dgemm_alpha0(m, n, beta, C, ldC) ==
    IF beta = 0
    THEN ForUp(0, n, LAMBDA c1, j :
             ForUp(0, m, LAMBDA c, i : [c EXCEPT ![i + j * ldC] = 0], c1), C)
    ELSE ForUp(0, n, LAMBDA c1, j :
             ForUp(0, m, LAMBDA c, i :
                 [c EXCEPT ![i + j * ldC] = fmul(beta, c[i + j * ldC])], c1), C)

\* dgemm_betaCol with the scaling left out.
dgemm_betaCol_skipped(m, j, beta, C, ldC) == C

\* The scaling of column j of C by beta that opens the NoTranspose-A loops.
dgemm_betaCol(m, j, beta, C, ldC) ==
    IF beta = 0
    THEN ForUp(0, m, LAMBDA c, i : [c EXCEPT ![i + j * ldC] = 0], C)
    ELSE IF beta # 1
    THEN ForUp(0, m, LAMBDA c, i :
             [c EXCEPT ![i + j * ldC] = fmul(beta, c[i + j * ldC])], C)
    ELSE C

\* C := alpha*A*B + beta*C
dgemm_NN(m, n, k, alpha, A, ldA, B, ldB, beta, C, ldC) ==
    ForUp(0, n, LAMBDA c1, j :
        ForUp(0, k, LAMBDA c2, l :
            LET temp == fmul(alpha, B[l + j * ldB])
            IN  ForUp(0, m, LAMBDA c, i :
                    [c EXCEPT ![i + j * ldC] =
                        fadd(c[i + j * ldC], fmul(temp, A[i + l * ldA]))], c2),
            dgemm_betaCol(m, j, beta, c1, ldC)), C)

\* dgemm_TN with the beta*C term left out of every element.
dgemm_TN_nobeta(m, n, k, alpha, A, ldA, B, ldB, beta, C, ldC) ==
    ForUp(0, n, LAMBDA c1, j :
        ForUp(0, m, LAMBDA c, i :
            LET temp == ForUp(0, k, LAMBDA t, l :
                            fadd(t, fmul(A[l + i * ldA], B[l + j * ldB])), 0)
            IN  [c EXCEPT ![i + j * ldC] = fmul(alpha, temp)],
            c1), C)

\* C := alpha*A^T*B + beta*C
dgemm_TN(m, n, k, alpha, A, ldA, B, ldB, beta, C, ldC) ==
    ForUp(0, n, LAMBDA c1, j :
        ForUp(0, m, LAMBDA c, i :
            LET temp == ForUp(0, k, LAMBDA t, l :
                            fadd(t, fmul(A[l + i * ldA], B[l + j * ldB])), 0)
            IN  IF beta = 0
                THEN [c EXCEPT ![i + j * ldC] = fmul(alpha, temp)]
                ELSE [c EXCEPT ![i + j * ldC] =
                         fadd(fmul(alpha, temp), fmul(beta, c[i + j * ldC]))],
            c1), C)

\* C := alpha*A*B^T + beta*C
dgemm_NT(m, n, k, alpha, A, ldA, B, ldB, beta, C, ldC) ==
    ForUp(0, n, LAMBDA c1, j :
        ForUp(0, k, LAMBDA c2, l :
            LET temp == fmul(alpha, B[j + l * ldB])
            IN  ForUp(0, m, LAMBDA c, i :
                    [c EXCEPT ![i + j * ldC] =
                        fadd(c[i + j * ldC], fmul(temp, A[i + l * ldA]))], c2),
            dgemm_betaCol(m, j, beta, c1, ldC)), C)

\* C := alpha*A^T*B^T + beta*C
dgemm_TT(m, n, k, alpha, A, ldA, B, ldB, beta, C, ldC) ==
    ForUp(0, n, LAMBDA c1, j :
        ForUp(0, m, LAMBDA c, i :
            LET temp == ForUp(0, k, LAMBDA t, l :
                            fadd(t, fmul(A[l + i * ldA], B[j + l * ldB])), 0)
            IN  IF beta = 0
                THEN [c EXCEPT ![i + j * ldC] = fmul(alpha, temp)]
                ELSE [c EXCEPT ![i + j * ldC] =
                         fadd(fmul(alpha, temp), fmul(beta, c[i + j * ldC]))],
            c1), C)

\* b = [A, B, C, err]: the buffers of the call.
dgemm(transA, transB, m, n, k, alpha, ldA, ldB, beta, ldC, b) ==
    LET notA == transA = "NoTranspose"
        notB == transB = "NoTranspose"
        nrowA == IF notA THEN m ELSE k
        nrowB == IF notB THEN k ELSE n
    IN  IF transA \notin BLASTranspose THEN Throw(b, "DGEMM: Invalid TRANSA parameter")
        ELSE IF transB \notin BLASTranspose THEN Throw(b, "DGEMM: Invalid TRANSB parameter")
        ELSE IF m < 0 THEN Throw(b, "DGEMM: M must be >= 0")
        ELSE IF n < 0 THEN Throw(b, "DGEMM: N must be >= 0")
        ELSE IF k < 0 THEN Throw(b, "DGEMM: K must be >= 0")
        ELSE IF ldA < Max(1, nrowA) THEN Throw(b, "DGEMM: LDA must be >= max(1, nrowA)")
        ELSE IF ldB < Max(1, nrowB) THEN Throw(b, "DGEMM: LDB must be >= max(1, nrowB)")
        ELSE IF ldC < Max(1, m) THEN Throw(b, "DGEMM: LDC must be >= max(1, M)")
        ELSE IF m = 0 \/ n = 0 \/ ((alpha = 0 \/ k = 0) /\ beta = 1) THEN b
        ELSE IF alpha = 0 THEN [b EXCEPT !.C = dgemm_alpha0(m, n, beta, b.C, ldC)]
        ELSE IF notB
        THEN IF notA
             THEN [b EXCEPT !.C = dgemm_NN(m, n, k, alpha, b.A, ldA, b.B, ldB, beta, b.C, ldC)]
             ELSE [b EXCEPT !.C = dgemm_TN(m, n, k, alpha, b.A, ldA, b.B, ldB, beta, b.C, ldC)]
        ELSE IF notA
             THEN [b EXCEPT !.C = dgemm_NT(m, n, k, alpha, b.A, ldA, b.B, ldB, beta, b.C, ldC)]
             ELSE [b EXCEPT !.C = dgemm_TT(m, n, k, alpha, b.A, ldA, b.B, ldB, beta, b.C, ldC)]

(***************************************************************************)
(* dgemv.  b = [A, x, y, err].                                             *)
(***************************************************************************)
\* Start offset of the Level 2 routines: `inc > 0 ? 0 : -(len - 1) * inc`.
StartK(len, inc) == IF inc > 0 THEN 0 ELSE -(len - 1) * inc

\* dgemv_beta with y scaled by beta also when beta is zero.
dgemv_beta_scaled(leny, beta, y, incy, ky) ==
    IF beta # 1
    THEN ForUp(0, leny, LAMBDA st, i :
             [y |-> [st.y EXCEPT ![st.iy] = fmul(beta, st.y[st.iy])], iy |-> st.iy + incy],
             [y |-> y, iy |-> ky]).y
    ELSE y

\* First form y := beta*y.
dgemv_beta(leny, beta, y, incy, ky) ==
    IF beta # 1
    THEN IF incy = 1
         THEN IF beta = 0
              THEN ForUp(0, leny, LAMBDA yy, i : [yy EXCEPT ![i] = 0], y)
              ELSE ForUp(0, leny, LAMBDA yy, i : [yy EXCEPT ![i] = fmul(beta, yy[i])], y)
         ELSE IF beta = 0
              THEN ForUp(0, leny, LAMBDA st, i :
                       [y |-> [st.y EXCEPT ![st.iy] = 0], iy |-> st.iy + incy],
                       [y |-> y, iy |-> ky]).y
              ELSE ForUp(0, leny, LAMBDA st, i :
                       [y |-> [st.y EXCEPT ![st.iy] = fmul(beta, st.y[st.iy])],
                        iy |-> st.iy + incy],
                       [y |-> y, iy |-> ky]).y
    ELSE y

\* dgemv_N stepping through y one element at a time whatever incy is.
dgemv_N_unit_step(m, n, alpha, A, ldA, x, incx, y, incy, kx, ky) ==
    IF incy = 1
    THEN ForUp(0, n, LAMBDA st, j :
             LET temp == fmul(alpha, x[st.jx])
             IN  [y |-> ForUp(0, m, LAMBDA yy, i :
                            [yy EXCEPT ![i] = fadd(yy[i], fmul(temp, A[i + j * ldA]))],
                            st.y),
                  jx |-> st.jx + incx],
             [y |-> y, jx |-> kx]).y
    ELSE ForUp(0, n, LAMBDA st, j :
             LET temp == fmul(alpha, x[st.jx])
             IN  [y |-> ForUp(0, m, LAMBDA s2, i :
                            [y |-> [s2.y EXCEPT ![s2.iy] =
                                       fadd(s2.y[s2.iy], fmul(temp, A[i + j * ldA]))],
                             iy |-> s2.iy + (IF incy > 0 THEN 1 ELSE -1)],
                            [y |-> st.y, iy |-> ky]).y,
                  jx |-> st.jx + incx],
             [y |-> y, jx |-> kx]).y

\* Form y := alpha*A*x + y.
dgemv_N(m, n, alpha, A, ldA, x, incx, y, incy, kx, ky) ==
    IF incy = 1
    THEN ForUp(0, n, LAMBDA st, j :
             LET temp == fmul(alpha, x[st.jx])
             IN  [y |-> ForUp(0, m, LAMBDA yy, i :
                            [yy EXCEPT ![i] = fadd(yy[i], fmul(temp, A[i + j * ldA]))],
                            st.y),
                  jx |-> st.jx + incx],
             [y |-> y, jx |-> kx]).y
    ELSE ForUp(0, n, LAMBDA st, j :
             LET temp == fmul(alpha, x[st.jx])
             IN  [y |-> ForUp(0, m, LAMBDA s2, i :
                            [y |-> [s2.y EXCEPT ![s2.iy] =
                                       fadd(s2.y[s2.iy], fmul(temp, A[i + j * ldA]))],
                             iy |-> s2.iy + incy],
                            [y |-> st.y, iy |-> ky]).y,
                  jx |-> st.jx + incx],
             [y |-> y, jx |-> kx]).y

\* dgemv_T with the unit-stride loop over x taken for every incx.
dgemv_T_unitx(m, n, alpha, A, ldA, x, incx, y, incy, kx, ky) ==
    ForUp(0, n, LAMBDA st, j :
        LET temp == ForUp(0, m, LAMBDA t, i : fadd(t, fmul(A[i + j * ldA], x[i])), 0)
        IN  [y |-> [st.y EXCEPT ![st.jy] = fadd(st.y[st.jy], fmul(alpha, temp))],
             jy |-> st.jy + incy],
        [y |-> y, jy |-> ky]).y

\* Form y := alpha*A^T*x + y.
dgemv_T(m, n, alpha, A, ldA, x, incx, y, incy, kx, ky) ==
    IF incx = 1
    THEN ForUp(0, n, LAMBDA st, j :
             LET temp == ForUp(0, m, LAMBDA t, i : fadd(t, fmul(A[i + j * ldA], x[i])), 0)
             IN  [y |-> [st.y EXCEPT ![st.jy] = fadd(st.y[st.jy], fmul(alpha, temp))],
                  jy |-> st.jy + incy],
             [y |-> y, jy |-> ky]).y
    ELSE ForUp(0, n, LAMBDA st, j :
             LET temp == ForUp(0, m, LAMBDA s2, i :
                             [t |-> fadd(s2.t, fmul(A[i + j * ldA], x[s2.ix])),
                              ix |-> s2.ix + incx],
                             [t |-> 0, ix |-> kx]).t
             IN  [y |-> [st.y EXCEPT ![st.jy] = fadd(st.y[st.jy], fmul(alpha, temp))],
                  jy |-> st.jy + incy],
             [y |-> y, jy |-> ky]).y

\* dgemv checking ldA only after y := beta*y has been formed.
dgemv_late_check(trans, m, n, alpha, ldA, incx, beta, incy, b) ==
    IF m = 0 \/ n = 0 \/ (alpha = 0 /\ beta = 1) THEN b
    ELSE LET lenx == IF trans = "NoTranspose" THEN n ELSE m
             leny == IF trans = "NoTranspose" THEN m ELSE n
             kx == StartK(lenx, incx)
             ky == StartK(leny, incy)
             y1 == dgemv_beta(leny, beta, b.y, incy, ky)
         IN  IF ldA < Max(1, m) THEN Throw([b EXCEPT !.y = y1], "Invalid ldA")
             ELSE IF alpha = 0 THEN [b EXCEPT !.y = y1]
             ELSE IF trans = "NoTranspose"
             THEN [b EXCEPT !.y = dgemv_N(m, n, alpha, b.A, ldA, b.x, incx, y1, incy, kx, ky)]
             ELSE [b EXCEPT !.y = dgemv_T(m, n, alpha, b.A, ldA, b.x, incx, y1, incy, kx, ky)]

dgemv(trans, m, n, alpha, ldA, incx, beta, incy, b) ==
    IF ldA < Max(1, m) THEN Throw(b, "Invalid ldA")
    ELSE IF m = 0 \/ n = 0 \/ (alpha = 0 /\ beta = 1) THEN b
    ELSE LET lenx == IF trans = "NoTranspose" THEN n ELSE m
             leny == IF trans = "NoTranspose" THEN m ELSE n
             kx == StartK(lenx, incx)
             ky == StartK(leny, incy)
             y1 == dgemv_beta(leny, beta, b.y, incy, ky)
         IN  IF alpha = 0 THEN [b EXCEPT !.y = y1]
             ELSE IF trans = "NoTranspose"
             THEN [b EXCEPT !.y = dgemv_N(m, n, alpha, b.A, ldA, b.x, incx, y1, incy, kx, ky)]
             ELSE [b EXCEPT !.y = dgemv_T(m, n, alpha, b.A, ldA, b.x, incx, y1, incy, kx, ky)]

(***************************************************************************)
(* dger, b = [x, y, A, err]: A := alpha*x*y^T + A.                         *)
(***************************************************************************)
dger(m, n, alpha, incx, incy, ldA, b) ==
    IF m < 0 THEN Throw(b, "DGER: M must be >= 0")
    ELSE IF n < 0 THEN Throw(b, "DGER: N must be >= 0")
    ELSE IF incx = 0 THEN Throw(b, "DGER: INCX must not be zero")
    ELSE IF incy = 0 THEN Throw(b, "DGER: INCY must not be zero")
    ELSE IF ldA < Max(1, m) THEN Throw(b, "DGER: LDA must be >= max(1,M)")
    ELSE IF m = 0 \/ n = 0 \/ alpha = 0 THEN b
    ELSE LET kx == IF incx > 0 THEN 0 ELSE -(m - 1) * incx
             col(st, j) ==
                 [A |-> IF b.y[st.jy] # 0
                        THEN LET temp == fmul(alpha, b.y[st.jy])
                             IN  IF incx = 1
                                 THEN ForUp(0, m, LAMBDA a, i :
                                          [a EXCEPT ![i + j * ldA] =
                                              fadd(@, fmul(b.x[i], temp))], st.A)
                                 ELSE ForUp(0, m, LAMBDA s2, i :
                                          [A |-> [s2.A EXCEPT ![i + j * ldA] =
                                                     fadd(@, fmul(b.x[s2.ix], temp))],
                                           ix |-> s2.ix + incx],
                                          [A |-> st.A, ix |-> kx]).A
                        ELSE st.A,
                  jy |-> st.jy + incy]
         IN  [b EXCEPT !.A = ForUp(0, n, col,
                                   [A |-> b.A, jy |-> IF incy > 0 THEN 0
                                                      ELSE -(n - 1) * incy]).A]

(***************************************************************************)
(* Numbers of the triangular routines dtrmv, dtrsv, dtrmm and dtrsm: exact *)
(* fractions <<p, q>> in lowest terms with q > 0.  The callers' operands   *)
(* (integer entries, diagonals that are powers of two) make every quotient *)
(* a dyadic fraction of few bits, which a double holds exactly.  A         *)
(* division by zero gives NaN, which every operation propagates.           *)
(***************************************************************************)
RECURSIVE GCD(_, _)
GCD(a, b) == IF b = 0 THEN a ELSE GCD(b, a % b)

Frac(p, q) ==
    IF q = 0 THEN <<0, 0>>
    ELSE LET g == GCD(Abs(p), Abs(q))
             s == IF q < 0 THEN -1 ELSE 1
         IN  <<(s * p) \div g, (s * q) \div g>>

R(a) == <<a, 1>>

radd(a, b) == Frac(a[1] * b[2] + b[1] * a[2], a[2] * b[2])

rsub(a, b) == Frac(a[1] * b[2] - b[1] * a[2], a[2] * b[2])

rmul(a, b) == Frac(a[1] * b[1], a[2] * b[2])

rdiv(a, b) == Frac(a[1] * b[2], a[2] * b[1])

\* ColScale running over all ldB rows of the column.
ColScale_ld(m, B, ldB, j, t) ==
    ForUp(0, ldB, LAMBDA Bi, i : [Bi EXCEPT ![i + j * ldB] = rmul(t, @)], B)

(***************************************************************************)
(* dtrmm.  b = [A, B, err]; each branch returns the buffer B.  The loops   *)
(* over the rows i of one column of B are ColScale, ColAdd and ColSub.     *)
(***************************************************************************)
\* for i < m: B[i + j*ldB] = t * B[i + j*ldB]
ColScale(m, B, ldB, j, t) ==
    ForUp(0, m, LAMBDA Bi, i : [Bi EXCEPT ![i + j * ldB] = rmul(t, @)], B)

\* for i < m: B[i + j*ldB] = B[i + j*ldB] + t * B[i + k*ldB]
ColAdd(m, B, ldB, j, k, t) ==
    ForUp(0, m,
          LAMBDA Bi, i : [Bi EXCEPT ![i + j * ldB] = radd(@, rmul(t, Bi[i + k * ldB]))],
          B)

\* for i < m: B[i + j*ldB] = B[i + j*ldB] - t * B[i + k*ldB]
ColSub(m, B, ldB, j, k, t) ==
    ForUp(0, m,
          LAMBDA Bi, i : [Bi EXCEPT ![i + j * ldB] = rsub(@, rmul(t, Bi[i + k * ldB]))],
          B)

\* alpha == 0: for j < n, i < m: B[i + j*ldB] = 0.0
ZeroB(m, n, B, ldB) ==
    ForUp(0, n,
          LAMBDA Bj, j : ForUp(0, m, LAMBDA Bi, i : [Bi EXCEPT ![i + j * ldB] = R(0)], Bj),
          B)

\* Left, NoTranspose: B := alpha*A*B.
dtrmm_LN(upper, nounit, m, n, alpha, A, ldA, B, ldB) ==
    ForUp(0, n,
          LAMBDA Bj, j :
              IF upper
              THEN ForUp(0, m,
                     LAMBDA Bk, k :
                         IF Bk[k + j * ldB] # R(0)
                         THEN LET temp == rmul(alpha, Bk[k + j * ldB])
                                  B1 == ForUp(0, k,
                                          LAMBDA Bi, i :
                                              [Bi EXCEPT ![i + j * ldB] =
                                                  radd(@, rmul(temp, A[i + k * ldA]))],
                                          Bk)
                              IN  [B1 EXCEPT ![k + j * ldB] =
                                      IF nounit THEN rmul(temp, A[k + k * ldA]) ELSE temp]
                         ELSE Bk,
                     Bj)
              ELSE ForDown(m - 1, 0,
                     LAMBDA Bk, k :
                         IF Bk[k + j * ldB] # R(0)
                         THEN LET temp == rmul(alpha, Bk[k + j * ldB])
                                  B1 == [Bk EXCEPT ![k + j * ldB] =
                                            IF nounit THEN rmul(temp, A[k + k * ldA])
                                            ELSE temp]
                              IN  ForUp(k + 1, m,
                                    LAMBDA Bi, i :
                                        [Bi EXCEPT ![i + j * ldB] =
                                            radd(@, rmul(temp, A[i + k * ldA]))],
                                    B1)
                         ELSE Bk,
                     Bj),
          B)

\* dtrmm_LT_at with alpha applied to the diagonal term only.
dtrmm_LT_at_early(upper, nounit, m, alpha, A, ldA, B, ldB, i, j) ==
    LET temp0 == IF nounit THEN rmul(B[i + j * ldB], A[i + i * ldA]) ELSE B[i + j * ldB]
        temp == ForUp(IF upper THEN 0 ELSE i + 1, IF upper THEN i ELSE m,
                      LAMBDA t, k : radd(t, rmul(A[k + i * ldA], B[k + j * ldB])),
                      rmul(alpha, temp0))
    IN  [B EXCEPT ![i + j * ldB] = temp]

\* One element of B := alpha*A^T*B (Left, Transpose): the sum runs over
\* k < i (upper) or i < k < m (lower).
dtrmm_LT_at(upper, nounit, m, alpha, A, ldA, B, ldB, i, j) ==
    LET temp0 == IF nounit THEN rmul(B[i + j * ldB], A[i + i * ldA]) ELSE B[i + j * ldB]
        temp == ForUp(IF upper THEN 0 ELSE i + 1, IF upper THEN i ELSE m,
                      LAMBDA t, k : radd(t, rmul(A[k + i * ldA], B[k + j * ldB])),
                      temp0)
    IN  [B EXCEPT ![i + j * ldB] = rmul(alpha, temp)]

\* Left, Transpose: B := alpha*A^T*B.
dtrmm_LT(upper, nounit, m, n, alpha, A, ldA, B, ldB) ==
    ForUp(0, n,
          LAMBDA Bj, j :
              IF upper
              THEN ForDown(m - 1, 0,
                     LAMBDA Bi, i : dtrmm_LT_at(upper, nounit, m, alpha, A, ldA, Bi, ldB, i, j),
                     Bj)
              ELSE ForUp(0, m,
                     LAMBDA Bi, i : dtrmm_LT_at(upper, nounit, m, alpha, A, ldA, Bi, ldB, i, j),
                     Bj),
          B)

\* Column j of B := alpha*B*A (Right, NoTranspose): scaled by alpha*A(j,j),
\* then the columns k < j (upper) or k > j (lower) are added.
dtrmm_RN_col(upper, nounit, m, n, alpha, A, ldA, B, ldB, j) ==
    LET temp == IF nounit THEN rmul(alpha, A[j + j * ldA]) ELSE alpha
    IN  ForUp(IF upper THEN 0 ELSE j + 1, IF upper THEN j ELSE n,
              LAMBDA Bk, k :
                  IF A[k + j * ldA] # R(0)
                  THEN ColAdd(m, Bk, ldB, j, k, rmul(alpha, A[k + j * ldA]))
                  ELSE Bk,
              ColScale(m, B, ldB, j, temp))

\* Right, NoTranspose: B := alpha*B*A.
dtrmm_RN(upper, nounit, m, n, alpha, A, ldA, B, ldB) ==
    IF upper
    THEN ForDown(n - 1, 0,
           LAMBDA Bj, j : dtrmm_RN_col(upper, nounit, m, n, alpha, A, ldA, Bj, ldB, j), B)
    ELSE ForUp(0, n,
           LAMBDA Bj, j : dtrmm_RN_col(upper, nounit, m, n, alpha, A, ldA, Bj, ldB, j), B)

\* Column k of B in B := alpha*B*A^T (Right, Transpose): added to the
\* columns j < k (upper) or j > k (lower), then scaled by alpha*A(k,k).
dtrmm_RT_col(upper, nounit, m, n, alpha, A, ldA, B, ldB, k) ==
    LET B1 == ForUp(IF upper THEN 0 ELSE k + 1, IF upper THEN k ELSE n,
                    LAMBDA Bj, j :
                        IF A[j + k * ldA] # R(0)
                        THEN ColAdd(m, Bj, ldB, j, k, rmul(alpha, A[j + k * ldA]))
                        ELSE Bj,
                    B)
        temp == IF nounit THEN rmul(alpha, A[k + k * ldA]) ELSE alpha
    IN  IF temp # R(1) THEN ColScale(m, B1, ldB, k, temp) ELSE B1

\* Right, Transpose: B := alpha*B*A^T.
dtrmm_RT(upper, nounit, m, n, alpha, A, ldA, B, ldB) ==
    IF upper
    THEN ForUp(0, n,
           LAMBDA Bk, k : dtrmm_RT_col(upper, nounit, m, n, alpha, A, ldA, Bk, ldB, k), B)
    ELSE ForDown(n - 1, 0,
           LAMBDA Bk, k : dtrmm_RT_col(upper, nounit, m, n, alpha, A, ldA, Bk, ldB, k), B)

dtrmm(side, uplo, transA, diag, m, n, alpha, ldA, ldB, b) ==
    LET lside == side = "Left"
        nrowA == IF lside THEN m ELSE n
        nounit == diag = "NonUnit"
        upper == uplo = "Upper"
    IN  IF side \notin BLASSide THEN Throw(b, "DTRMM: Invalid SIDE parameter")
        ELSE IF uplo \notin BLASUplo THEN Throw(b, "DTRMM: Invalid UPLO parameter")
        ELSE IF transA \notin BLASTranspose THEN Throw(b, "DTRMM: Invalid TRANSA parameter")
        ELSE IF diag \notin BLASDiag THEN Throw(b, "DTRMM: Invalid DIAG parameter")
        ELSE IF m < 0 THEN Throw(b, "DTRMM: M must be >= 0")
        ELSE IF n < 0 THEN Throw(b, "DTRMM: N must be >= 0")
        ELSE IF ldA < Max(1, nrowA) THEN Throw(b, "DTRMM: LDA must be >= max(1, nrowA)")
        ELSE IF ldB < Max(1, m) THEN Throw(b, "DTRMM: LDB must be >= max(1, M)")
        ELSE IF m = 0 \/ n = 0 THEN b
        ELSE IF alpha = R(0)
        THEN [b EXCEPT !.B = ZeroB(m, n, b.B, ldB)]
        ELSE IF lside
        THEN IF transA = "NoTranspose"
             THEN [b EXCEPT !.B = dtrmm_LN(upper, nounit, m, n, alpha, b.A, ldA, b.B, ldB)]
             ELSE [b EXCEPT !.B = dtrmm_LT(upper, nounit, m, n, alpha, b.A, ldA, b.B, ldB)]
        ELSE IF transA = "NoTranspose"
             THEN [b EXCEPT !.B = dtrmm_RN(upper, nounit, m, n, alpha, b.A, ldA, b.B, ldB)]
             ELSE [b EXCEPT !.B = dtrmm_RT(upper, nounit, m, n, alpha, b.A, ldA, b.B, ldB)]

(***************************************************************************)
(* dtrsm.  b = [A, B, err]; the routine checks none of its arguments.      *)
(***************************************************************************)
\* Left, NoTranspose: B := alpha*inv(A)*B, column by column; backward
\* substitution (upper) or forward substitution (lower).
dtrsm_LN(upper, nounit, m, n, alpha, A, ldA, B, ldB) ==
    ForUp(0, n,
          LAMBDA Bj, j :
              LET B0 == IF alpha # R(1) THEN ColScale(m, Bj, ldB, j, alpha) ELSE Bj
                  step(Bk, k) ==
                      IF Bk[k + j * ldB] # R(0)
                      THEN ForUp(IF upper THEN 0 ELSE k + 1, IF upper THEN k ELSE m,
                             LAMBDA Bi, i :
                                 [Bi EXCEPT ![i + j * ldB] =
                                     rsub(@, rmul(Bi[k + j * ldB], A[i + k * ldA]))],
                             IF nounit
                             THEN [Bk EXCEPT ![k + j * ldB] = rdiv(@, A[k + k * ldA])]
                             ELSE Bk)
                      ELSE Bk
              IN  IF upper THEN ForDown(m - 1, 0, step, B0) ELSE ForUp(0, m, step, B0),
          B)

\* Left, Transpose, Upper: B := alpha*inv(A^T)*B; for i ascending,
\* temp = alpha*B(i,j) - sum_{k<i} A(k,i)*B(k,j), divided by A(i,i).
dtrsm_LTU(nounit, m, n, alpha, A, ldA, B, ldB) ==
    ForUp(0, n,
          LAMBDA Bj, j :
              ForUp(0, m,
                    LAMBDA Bi, i :
                        LET temp == ForUp(0, i,
                                      LAMBDA t, k :
                                          rsub(t, rmul(A[k + i * ldA], Bi[k + j * ldB])),
                                      rmul(alpha, Bi[i + j * ldB]))
                        IN  [Bi EXCEPT ![i + j * ldB] =
                                IF nounit THEN rdiv(temp, A[i + i * ldA]) ELSE temp],
                    Bj),
          B)

\* Left, Transpose, Lower, as written: for i ascending,
\* temp = alpha*B(i,j) - sum_{k<i} A(i,k)*B(k,j), divided by A(i,i).
dtrsm_LTL(nounit, m, n, alpha, A, ldA, B, ldB) ==
    ForUp(0, n,
          LAMBDA Bj, j :
              ForUp(0, m,
                    LAMBDA Bi, i :
                        LET temp == ForUp(0, i,
                                      LAMBDA t, k :
                                          rsub(t, rmul(A[i + k * ldA], Bi[k + j * ldB])),
                                      rmul(alpha, Bi[i + j * ldB]))
                        IN  [Bi EXCEPT ![i + j * ldB] =
                                IF nounit THEN rdiv(temp, A[i + i * ldA]) ELSE temp],
                    Bj),
          B)

\* Right, NoTranspose: B := alpha*B*inv(A), for j ascending (upper) or
\* descending (lower).
dtrsm_RN(upper, nounit, m, n, alpha, A, ldA, B, ldB) ==
    LET col(Bj, j) ==
            LET B0 == IF alpha # R(1) THEN ColScale(m, Bj, ldB, j, alpha) ELSE Bj
                B1 == ForUp(IF upper THEN 0 ELSE j + 1, IF upper THEN j ELSE n,
                            LAMBDA Bk, k :
                                IF A[k + j * ldA] # R(0)
                                THEN ColSub(m, Bk, ldB, j, k, A[k + j * ldA])
                                ELSE Bk,
                            B0)
            IN  IF nounit THEN ColScale(m, B1, ldB, j, rdiv(R(1), A[j + j * ldA])) ELSE B1
    IN  IF upper THEN ForUp(0, n, col, B) ELSE ForDown(n - 1, 0, col, B)

\* Right, Transpose: B := alpha*B*inv(A^T), for k descending (upper) or
\* ascending (lower).
dtrsm_RT(upper, nounit, m, n, alpha, A, ldA, B, ldB) ==
    LET col(Bk, k) ==
            LET B0 == IF nounit THEN ColScale(m, Bk, ldB, k, rdiv(R(1), A[k + k * ldA]))
                      ELSE Bk
                B1 == ForUp(IF upper THEN 0 ELSE k + 1, IF upper THEN k ELSE n,
                            LAMBDA Bj, j :
                                IF A[j + k * ldA] # R(0)
                                THEN ColSub(m, Bj, ldB, j, k, A[j + k * ldA])
                                ELSE Bj,
                            B0)
            IN  IF alpha # R(1) THEN ColScale(m, B1, ldB, k, alpha) ELSE B1
    IN  IF upper THEN ForDown(n - 1, 0, col, B) ELSE ForUp(0, n, col, B)

dtrsm(side, uplo, transA, diag, m, n, alpha, ldA, ldB, b) ==
    LET lside == side = "Left"
        nounit == diag = "NonUnit"
        upper == uplo = "Upper"
    IN  IF m = 0 \/ n = 0 THEN b
        ELSE IF alpha = R(0) THEN [b EXCEPT !.B = ZeroB(m, n, b.B, ldB)]
        ELSE IF lside
        THEN IF transA = "NoTranspose"
             THEN [b EXCEPT !.B = dtrsm_LN(upper, nounit, m, n, alpha, b.A, ldA, b.B, ldB)]
             ELSE IF upper
             THEN [b EXCEPT !.B = dtrsm_LTU(nounit, m, n, alpha, b.A, ldA, b.B, ldB)]
             ELSE [b EXCEPT !.B = dtrsm_LTL(nounit, m, n, alpha, b.A, ldA, b.B, ldB)]
        ELSE IF transA = "NoTranspose"
             THEN [b EXCEPT !.B = dtrsm_RN(upper, nounit, m, n, alpha, b.A, ldA, b.B, ldB)]
             ELSE [b EXCEPT !.B = dtrsm_RT(upper, nounit, m, n, alpha, b.A, ldA, b.B, ldB)]

(***************************************************************************)
(* The symmetric updates dsyr, dsyr2, dsyrk and dsyr2k.  Their loops       *)
(* thread [mat : the matrix updated;  wr : the offsets written so far].    *)
(* Column j of the declared triangle is the rows ILo <= i < IHi: 0..j for  *)
(* Upper, j..n-1 for Lower.                                                *)
(***************************************************************************)
Put(st, p, v) == [mat |-> [st.mat EXCEPT ![p] = v], wr |-> st.wr \cup {p}]

ILo(upper, j) == IF upper THEN 0 ELSE j

\* The declared triangle's row bound replaced by the whole column's.
IHi_full(upper, j, n) == n

IHi(upper, j, n) == IF upper THEN j + 1 ELSE n

\* dsyr, b = [x, A, err, wr]: A := alpha*x*x^T + A.  jx and ix are
\* kx + j*incx and kx + i*incx; with incx == 1 they are j and i.
dsyr(uplo, n, alpha, incx, ldA, b) ==
    IF uplo \notin BLASUplo THEN Throw(b, "DSYR: Invalid UPLO parameter")
    ELSE IF n < 0 THEN Throw(b, "DSYR: N must be >= 0")
    ELSE IF incx = 0 THEN Throw(b, "DSYR: INCX must not be zero")
    ELSE IF ldA < Max(1, n) THEN Throw(b, "DSYR: LDA must be >= max(1,N)")
    ELSE IF n = 0 \/ alpha = 0 THEN b
    ELSE LET upper == uplo = "Upper"
             kx == IF incx <= 0 THEN -(n - 1) * incx ELSE 0
             col(sj, j) ==
                 IF b.x[kx + j * incx] # 0
                 THEN LET temp == fmul(alpha, b.x[kx + j * incx])
                      IN  ForUp(ILo(upper, j), IHi(upper, j, n),
                                LAMBDA si, i :
                                    Put(si, i + j * ldA,
                                        fadd(si.mat[i + j * ldA],
                                             fmul(b.x[kx + i * incx], temp))),
                                sj)
                 ELSE sj
             st == ForUp(0, n, col, [mat |-> b.A, wr |-> b.wr])
         IN  [b EXCEPT !.A = st.mat, !.wr = st.wr]

\* dsyr2, b = [x, y, A, err, wr]: A := alpha*x*y^T + alpha*y*x^T + A.
dsyr2(uplo, n, alpha, incx, incy, ldA, b) ==
    IF uplo \notin BLASUplo THEN Throw(b, "DSYR2: Invalid UPLO parameter")
    ELSE IF n < 0 THEN Throw(b, "DSYR2: N must be >= 0")
    ELSE IF incx = 0 THEN Throw(b, "DSYR2: INCX must not be zero")
    ELSE IF incy = 0 THEN Throw(b, "DSYR2: INCY must not be zero")
    ELSE IF ldA < Max(1, n) THEN Throw(b, "DSYR2: LDA must be >= max(1,N)")
    ELSE IF n = 0 \/ alpha = 0 THEN b
    ELSE LET upper == uplo = "Upper"
             kx == IF incx # 1 \/ incy # 1 THEN StartK(n, incx) ELSE 0
             ky == IF incx # 1 \/ incy # 1 THEN StartK(n, incy) ELSE 0
             col(sj, j) ==
                 IF b.x[kx + j * incx] # 0 \/ b.y[ky + j * incy] # 0
                 THEN LET temp1 == fmul(alpha, b.y[ky + j * incy])
                          temp2 == fmul(alpha, b.x[kx + j * incx])
                      IN  ForUp(ILo(upper, j), IHi(upper, j, n),
                                LAMBDA si, i :
                                    Put(si, i + j * ldA,
                                        fadd(fadd(si.mat[i + j * ldA],
                                                  fmul(b.x[kx + i * incx], temp1)),
                                             fmul(b.y[ky + i * incy], temp2))),
                                sj)
                 ELSE sj
             st == ForUp(0, n, col, [mat |-> b.A, wr |-> b.wr])
         IN  [b EXCEPT !.A = st.mat, !.wr = st.wr]

\* TriScale leaving the column as it is.
TriScale_skipped(upper, n, j, beta, st, ldC) == st

\* Column j of the declared triangle of C := beta*C: zeroed when beta == 0,
\* left alone when beta == 1.
TriScale(upper, n, j, beta, st, ldC) ==
    IF beta = 0
    THEN ForUp(ILo(upper, j), IHi(upper, j, n),
               LAMBDA si, i : Put(si, i + j * ldC, 0), st)
    ELSE IF beta # 1
    THEN ForUp(ILo(upper, j), IHi(upper, j, n),
               LAMBDA si, i : Put(si, i + j * ldC, fmul(beta, si.mat[i + j * ldC])), st)
    ELSE st

\* dsyrk, NoTranspose: C := alpha*A*A^T + beta*C.
dsyrk_N(upper, n, k, alpha, A, ldA, beta, st, ldC) ==
    ForUp(0, n,
          LAMBDA sj, j :
              ForUp(0, k,
                    LAMBDA sl, l :
                        IF A[j + l * ldA] # 0
                        THEN LET temp == fmul(alpha, A[j + l * ldA])
                             IN  ForUp(ILo(upper, j), IHi(upper, j, n),
                                       LAMBDA si, i :
                                           Put(si, i + j * ldC,
                                               fadd(si.mat[i + j * ldC],
                                                    fmul(temp, A[i + l * ldA]))),
                                       sl)
                        ELSE sl,
                    TriScale(upper, n, j, beta, sj, ldC)),
          st)

\* dsyrk, Transpose: C := alpha*A^T*A + beta*C.
dsyrk_T(upper, n, k, alpha, A, ldA, beta, st, ldC) ==
    ForUp(0, n,
          LAMBDA sj, j :
              ForUp(ILo(upper, j), IHi(upper, j, n),
                    LAMBDA si, i :
                        LET temp == ForUp(0, k,
                                      LAMBDA t, l :
                                          fadd(t, fmul(A[l + i * ldA], A[l + j * ldA])),
                                      0)
                        IN  Put(si, i + j * ldC,
                                IF beta = 0 THEN fmul(alpha, temp)
                                ELSE fadd(fmul(alpha, temp), fmul(beta, si.mat[i + j * ldC]))),
                    sj),
          st)

\* dsyrk, b = [A, C, err, wr].  With alpha == 0 the quick return has taken
\* beta == 1, so the scaling loop is TriScale's.
dsyrk(uplo, trans, n, k, alpha, ldA, beta, ldC, b) ==
    LET nrowA == IF trans = "NoTranspose" THEN n ELSE k
        upper == uplo = "Upper"
        st0 == [mat |-> b.C, wr |-> b.wr]
        st == IF alpha = 0
              THEN ForUp(0, n, LAMBDA sj, j : TriScale(upper, n, j, beta, sj, ldC), st0)
              ELSE IF trans = "NoTranspose"
              THEN dsyrk_N(upper, n, k, alpha, b.A, ldA, beta, st0, ldC)
              ELSE dsyrk_T(upper, n, k, alpha, b.A, ldA, beta, st0, ldC)
    IN  IF uplo \notin BLASUplo THEN Throw(b, "DSYRK: Invalid UPLO parameter")
        ELSE IF trans \notin BLASTranspose THEN Throw(b, "DSYRK: Invalid TRANS parameter")
        ELSE IF n < 0 THEN Throw(b, "DSYRK: N must be >= 0")
        ELSE IF k < 0 THEN Throw(b, "DSYRK: K must be >= 0")
        ELSE IF ldA < Max(1, nrowA) THEN Throw(b, "DSYRK: LDA must be >= max(1, nrowA)")
        ELSE IF ldC < Max(1, n) THEN Throw(b, "DSYRK: LDC must be >= max(1, N)")
        ELSE IF n = 0 \/ ((alpha = 0 \/ k = 0) /\ beta = 1) THEN b
        ELSE [b EXCEPT !.C = st.mat, !.wr = st.wr]

\* dsyr2k, NoTranspose: C := alpha*A*B^T + alpha*B*A^T + beta*C.
dsyr2k_N(upper, n, k, alpha, A, ldA, B, ldB, beta, st, ldC) ==
    ForUp(0, n,
          LAMBDA sj, j :
              ForUp(0, k,
                    LAMBDA sl, l :
                        IF A[j + l * ldA] # 0 \/ B[j + l * ldB] # 0
                        THEN LET temp1 == fmul(alpha, B[j + l * ldB])
                                 temp2 == fmul(alpha, A[j + l * ldA])
                             IN  ForUp(ILo(upper, j), IHi(upper, j, n),
                                       LAMBDA si, i :
                                           Put(si, i + j * ldC,
                                               fadd(fadd(si.mat[i + j * ldC],
                                                         fmul(A[i + l * ldA], temp1)),
                                                    fmul(B[i + l * ldB], temp2))),
                                       sl)
                        ELSE sl,
                    TriScale(upper, n, j, beta, sj, ldC)),
          st)

\* dsyr2k, Transpose: C := alpha*A^T*B + alpha*B^T*A + beta*C.
dsyr2k_T(upper, n, k, alpha, A, ldA, B, ldB, beta, st, ldC) ==
    ForUp(0, n,
          LAMBDA sj, j :
              ForUp(ILo(upper, j), IHi(upper, j, n),
                    LAMBDA si, i :
                        LET temp1 == ForUp(0, k,
                                       LAMBDA t, l :
                                           fadd(t, fmul(A[l + i * ldA], B[l + j * ldB])),
                                       0)
                            temp2 == ForUp(0, k,
                                       LAMBDA t, l :
                                           fadd(t, fmul(B[l + i * ldB], A[l + j * ldA])),
                                       0)
                        IN  Put(si, i + j * ldC,
                                IF beta = 0
                                THEN fadd(fmul(alpha, temp1), fmul(alpha, temp2))
                                ELSE fadd(fadd(fmul(beta, si.mat[i + j * ldC]),
                                               fmul(alpha, temp1)),
                                          fmul(alpha, temp2))),
                    sj),
          st)

\* dsyr2k, b = [A, B, C, err, wr].
dsyr2k(uplo, trans, n, k, alpha, ldA, ldB, beta, ldC, b) ==
    LET nrowA == IF trans = "NoTranspose" THEN n ELSE k
        upper == uplo = "Upper"
        st0 == [mat |-> b.C, wr |-> b.wr]
        st == IF alpha = 0
              THEN ForUp(0, n, LAMBDA sj, j : TriScale(upper, n, j, beta, sj, ldC), st0)
              ELSE IF trans = "NoTranspose"
              THEN dsyr2k_N(upper, n, k, alpha, b.A, ldA, b.B, ldB, beta, st0, ldC)
              ELSE dsyr2k_T(upper, n, k, alpha, b.A, ldA, b.B, ldB, beta, st0, ldC)
    IN  IF uplo \notin BLASUplo THEN Throw(b, "DSYR2K: Invalid UPLO parameter")
        ELSE IF trans \notin BLASTranspose THEN Throw(b, "DSYR2K: Invalid TRANS parameter")
        ELSE IF n < 0 THEN Throw(b, "DSYR2K: N must be >= 0")
        ELSE IF k < 0 THEN Throw(b, "DSYR2K: K must be >= 0")
        ELSE IF ldA < Max(1, nrowA) THEN Throw(b, "DSYR2K: LDA must be >= max(1, nrowA)")
        ELSE IF ldB < Max(1, nrowA) THEN Throw(b, "DSYR2K: LDB must be >= max(1, nrowA)")
        ELSE IF ldC < Max(1, n) THEN Throw(b, "DSYR2K: LDC must be >= max(1, N)")
        ELSE IF n = 0 \/ ((alpha = 0 \/ k = 0) /\ beta = 1) THEN b
        ELSE [b EXCEPT !.C = st.mat, !.wr = st.wr]

(***************************************************************************)
(* dtrmv and dtrsv.  b = [A, x, err].  Logical element i of x is at offset *)
(* kx + i*incx in every branch (jx and ix of the code; j and i when        *)
(* incx == 1).                                                             *)
(***************************************************************************)
\* `if (nounit) v = v * A[j + j*ldA]` with the test dropped.
DiagMul_always(nounit, v, A, p) == rmul(v, A[p])

\* `if (nounit) v = v * A[j + j*ldA]`, p being the diagonal's offset.
DiagMul(nounit, v, A, p) == IF nounit THEN rmul(v, A[p]) ELSE v

\* `if (nounit) v = v / A[j + j*ldA]`.
DiagDiv(nounit, v, A, p) == IF nounit THEN rdiv(v, A[p]) ELSE v

\* dtrmv_N taking the columns last to first for Upper as well.
dtrmv_N_backward(upper, nounit, n, A, ldA, x, incx, kx) ==
    LET col(xj, j) ==
            IF xj[kx + j * incx] # R(0)
            THEN LET temp == xj[kx + j * incx]
                     upd(xi, i) == [xi EXCEPT ![kx + i * incx] =
                                        radd(@, rmul(temp, A[i + j * ldA]))]
                     x1 == IF upper THEN ForUp(0, j, upd, xj)
                           ELSE ForDown(n - 1, j + 1, upd, xj)
                 IN  [x1 EXCEPT ![kx + j * incx] = DiagMul(nounit, @, A, j + j * ldA)]
            ELSE xj
    IN  ForDown(n - 1, 0, col, x)

\* dtrmv, NoTranspose: x := A*x, for j ascending (upper) or descending.
dtrmv_N(upper, nounit, n, A, ldA, x, incx, kx) ==
    LET col(xj, j) ==
            IF xj[kx + j * incx] # R(0)
            THEN LET temp == xj[kx + j * incx]
                     upd(xi, i) == [xi EXCEPT ![kx + i * incx] =
                                        radd(@, rmul(temp, A[i + j * ldA]))]
                     x1 == IF upper THEN ForUp(0, j, upd, xj)
                           ELSE ForDown(n - 1, j + 1, upd, xj)
                 IN  [x1 EXCEPT ![kx + j * incx] = DiagMul(nounit, @, A, j + j * ldA)]
            ELSE xj
    IN  IF upper THEN ForUp(0, n, col, x) ELSE ForDown(n - 1, 0, col, x)

\* dtrmv, Transpose: x := A^T*x, for j descending (upper) or ascending.
dtrmv_T(upper, nounit, n, A, ldA, x, incx, kx) ==
    LET row(xj, j) ==
            LET acc(t, i) == radd(t, rmul(A[i + j * ldA], xj[kx + i * incx]))
                temp0 == DiagMul(nounit, xj[kx + j * incx], A, j + j * ldA)
                temp == IF upper THEN ForDown(j - 1, 0, acc, temp0)
                        ELSE ForUp(j + 1, n, acc, temp0)
            IN  [xj EXCEPT ![kx + j * incx] = temp]
    IN  IF upper THEN ForDown(n - 1, 0, row, x) ELSE ForUp(0, n, row, x)

dtrmv(uplo, trans, diag, n, ldA, incx, b) ==
    IF uplo \notin BLASUplo THEN Throw(b, "DTRMV: Invalid UPLO parameter")
    ELSE IF trans \notin BLASTranspose THEN Throw(b, "DTRMV: Invalid TRANS parameter")
    ELSE IF diag \notin BLASDiag THEN Throw(b, "DTRMV: Invalid DIAG parameter")
    ELSE IF n < 0 THEN Throw(b, "DTRMV: N must be >= 0")
    ELSE IF ldA < Max(1, n) THEN Throw(b, "DTRMV: LDA must be >= max(1,N)")
    ELSE IF incx = 0 THEN Throw(b, "DTRMV: INCX must not be zero")
    ELSE IF n = 0 THEN b
    ELSE LET nounit == diag = "NonUnit"
             upper == uplo = "Upper"
             kx == IF incx <= 0 THEN -(n - 1) * incx ELSE 0
         IN  IF trans = "NoTranspose"
             THEN [b EXCEPT !.x = dtrmv_N(upper, nounit, n, b.A, ldA, b.x, incx, kx)]
             ELSE [b EXCEPT !.x = dtrmv_T(upper, nounit, n, b.A, ldA, b.x, incx, kx)]

\* dtrsv_N taking the columns first to last for Upper as well.
dtrsv_N_forward(upper, nounit, n, A, ldA, x, incx, kx) ==
    LET col(xj, j) ==
            IF xj[kx + j * incx] # R(0)
            THEN LET x1 == [xj EXCEPT ![kx + j * incx] = DiagDiv(nounit, @, A, j + j * ldA)]
                     temp == x1[kx + j * incx]
                     upd(xi, i) == [xi EXCEPT ![kx + i * incx] =
                                        rsub(@, rmul(temp, A[i + j * ldA]))]
                 IN  IF upper THEN ForDown(j - 1, 0, upd, x1) ELSE ForUp(j + 1, n, upd, x1)
            ELSE xj
    IN  ForUp(0, n, col, x)

\* dtrsv, NoTranspose: x := inv(A)*x, for j descending (upper) or ascending.
dtrsv_N(upper, nounit, n, A, ldA, x, incx, kx) ==
    LET col(xj, j) ==
            IF xj[kx + j * incx] # R(0)
            THEN LET x1 == [xj EXCEPT ![kx + j * incx] = DiagDiv(nounit, @, A, j + j * ldA)]
                     temp == x1[kx + j * incx]
                     upd(xi, i) == [xi EXCEPT ![kx + i * incx] =
                                        rsub(@, rmul(temp, A[i + j * ldA]))]
                 IN  IF upper THEN ForDown(j - 1, 0, upd, x1) ELSE ForUp(j + 1, n, upd, x1)
            ELSE xj
    IN  IF upper THEN ForDown(n - 1, 0, col, x) ELSE ForUp(0, n, col, x)

\* dtrsv, Transpose: x := inv(A^T)*x, for j ascending (upper) or descending.
dtrsv_T(upper, nounit, n, A, ldA, x, incx, kx) ==
    LET row(xj, j) ==
            LET acc(t, i) == rsub(t, rmul(A[i + j * ldA], xj[kx + i * incx]))
                temp == IF upper THEN ForUp(0, j, acc, xj[kx + j * incx])
                        ELSE ForDown(n - 1, j + 1, acc, xj[kx + j * incx])
            IN  [xj EXCEPT ![kx + j * incx] = DiagDiv(nounit, temp, A, j + j * ldA)]
    IN  IF upper THEN ForUp(0, n, row, x) ELSE ForDown(n - 1, 0, row, x)

dtrsv(uplo, trans, diag, n, ldA, incx, b) ==
    IF uplo \notin BLASUplo THEN Throw(b, "DTRSV: Invalid UPLO parameter")
    ELSE IF trans \notin BLASTranspose THEN Throw(b, "DTRSV: Invalid TRANS parameter")
    ELSE IF diag \notin BLASDiag THEN Throw(b, "DTRSV: Invalid DIAG parameter")
    ELSE IF n < 0 THEN Throw(b, "DTRSV: N must be >= 0")
    ELSE IF ldA < Max(1, n) THEN Throw(b, "DTRSV: LDA must be >= max(1,N)")
    ELSE IF incx = 0 THEN Throw(b, "DTRSV: INCX must not be zero")
    ELSE IF n = 0 THEN b
    ELSE LET nounit == diag = "NonUnit"
             upper == uplo = "Upper"
             kx == IF incx <= 0 THEN -(n - 1) * incx ELSE 0
         IN  IF trans = "NoTranspose"
             THEN [b EXCEPT !.x = dtrsv_N(upper, nounit, n, b.A, ldA, b.x, incx, kx)]
             ELSE [b EXCEPT !.x = dtrsv_T(upper, nounit, n, b.A, ldA, b.x, incx, kx)]

(***************************************************************************)
(* dsymv, b = [A, x, y, err], and dsymm, b = [A, B, C, err].               *)
(***************************************************************************)
\* dsymv: y := alpha*A*x + beta*y.  The scaling of y by beta is that of
\* dgemv; the inner loop threads [y, t2 : temp2].
dsymv(uplo, n, alpha, ldA, incx, beta, incy, b) ==
    IF uplo \notin BLASUplo THEN Throw(b, "DSYMV: Invalid UPLO parameter")
    ELSE IF n < 0 THEN Throw(b, "DSYMV: N must be >= 0")
    ELSE IF ldA < Max(1, n) THEN Throw(b, "DSYMV: LDA must be >= max(1,N)")
    ELSE IF incx = 0 THEN Throw(b, "DSYMV: INCX must not be zero")
    ELSE IF incy = 0 THEN Throw(b, "DSYMV: INCY must not be zero")
    ELSE IF n = 0 \/ (alpha = 0 /\ beta = 1) THEN b
    ELSE LET kx == StartK(n, incx)
             ky == StartK(n, incy)
             y0 == dgemv_beta(n, beta, b.y, incy, ky)
             col(yj, j) ==
                 LET temp1 == fmul(alpha, b.x[kx + j * incx])
                     inner(st, i) ==
                         [y |-> [st.y EXCEPT ![ky + i * incy] =
                                    fadd(@, fmul(temp1, b.A[i + j * ldA]))],
                          t2 |-> fadd(st.t2, fmul(b.A[i + j * ldA], b.x[kx + i * incx]))]
                 IN  IF uplo = "Upper"
                     THEN LET s == ForUp(0, j, inner, [y |-> yj, t2 |-> 0])
                          IN  [s.y EXCEPT ![ky + j * incy] =
                                  fadd(fadd(@, fmul(temp1, b.A[j + j * ldA])),
                                       fmul(alpha, s.t2))]
                     ELSE LET y1 == [yj EXCEPT ![ky + j * incy] =
                                        fadd(@, fmul(temp1, b.A[j + j * ldA]))]
                              s == ForUp(j + 1, n, inner, [y |-> y1, t2 |-> 0])
                          IN  [s.y EXCEPT ![ky + j * incy] = fadd(@, fmul(alpha, s.t2))]
         IN  IF alpha = 0 THEN [b EXCEPT !.y = y0]
             ELSE [b EXCEPT !.y = ForUp(0, n, col, y0)]

\* dsymm_L without the mirrored contribution temp2: A read as triangular.
dsymm_L_triangular(upper, m, n, alpha, A, ldA, B, ldB, beta, C, ldC) ==
    ForUp(0, n,
          LAMBDA Cj, j :
              LET row(Ci, i) ==
                      LET temp1 == fmul(alpha, B[i + j * ldB])
                          inner(st, k) ==
                              [C |-> [st.C EXCEPT ![k + j * ldC] =
                                         fadd(@, fmul(temp1, A[k + i * ldA]))],
                               t2 |-> fadd(st.t2, fmul(B[k + j * ldB], A[k + i * ldA]))]
                          s == ForUp(IF upper THEN 0 ELSE i + 1, IF upper THEN i ELSE m,
                                     inner, [C |-> Ci, t2 |-> 0])
                      IN  [s.C EXCEPT ![i + j * ldC] =
                              IF beta = 0
                              THEN fadd(fmul(temp1, A[i + i * ldA]), 0)
                              ELSE fadd(fadd(fmul(beta, @), fmul(temp1, A[i + i * ldA])),
                                        0)]
              IN  IF upper THEN ForUp(0, m, row, Cj) ELSE ForDown(m - 1, 0, row, Cj),
          C)

\* dsymm, Left: C := alpha*A*B + beta*C, for i ascending (upper) or
\* descending (lower); the inner loop threads [C, t2 : temp2].
dsymm_L(upper, m, n, alpha, A, ldA, B, ldB, beta, C, ldC) ==
    ForUp(0, n,
          LAMBDA Cj, j :
              LET row(Ci, i) ==
                      LET temp1 == fmul(alpha, B[i + j * ldB])
                          inner(st, k) ==
                              [C |-> [st.C EXCEPT ![k + j * ldC] =
                                         fadd(@, fmul(temp1, A[k + i * ldA]))],
                               t2 |-> fadd(st.t2, fmul(B[k + j * ldB], A[k + i * ldA]))]
                          s == ForUp(IF upper THEN 0 ELSE i + 1, IF upper THEN i ELSE m,
                                     inner, [C |-> Ci, t2 |-> 0])
                      IN  [s.C EXCEPT ![i + j * ldC] =
                              IF beta = 0
                              THEN fadd(fmul(temp1, A[i + i * ldA]), fmul(alpha, s.t2))
                              ELSE fadd(fadd(fmul(beta, @), fmul(temp1, A[i + i * ldA])),
                                        fmul(alpha, s.t2))]
              IN  IF upper THEN ForUp(0, m, row, Cj) ELSE ForDown(m - 1, 0, row, Cj),
          C)

\* dsymm, Right, reading A(k,j) at k + j*ldA whatever uplo says.
dsymm_R_stored(upper, m, n, alpha, A, ldA, B, ldB, beta, C, ldC) ==
    ForUp(0, n,
          LAMBDA Cj, j :
              LET temp0 == fmul(alpha, A[j + j * ldA])
                  C0 == ForUp(0, m,
                          LAMBDA Ci, i :
                              [Ci EXCEPT ![i + j * ldC] =
                                  IF beta = 0 THEN fmul(temp0, B[i + j * ldB])
                                  ELSE fadd(fmul(beta, @), fmul(temp0, B[i + j * ldB]))],
                          Cj)
                  add(Ck, k) ==
                      LET temp1 == fmul(alpha, A[k + j * ldA])
                      IN  ForUp(0, m,
                                LAMBDA Ci, i :
                                    [Ci EXCEPT ![i + j * ldC] =
                                        fadd(@, fmul(temp1, B[i + k * ldB]))],
                                Ck)
              IN  ForUp(j + 1, n, add, ForUp(0, j, add, C0)),
          C)

\* dsymm, Right: C := alpha*B*A + beta*C; A(k,j) is read from the declared
\* triangle: at k + j*ldA or at j + k*ldA.
dsymm_R(upper, m, n, alpha, A, ldA, B, ldB, beta, C, ldC) ==
    ForUp(0, n,
          LAMBDA Cj, j :
              LET temp0 == fmul(alpha, A[j + j * ldA])
                  C0 == ForUp(0, m,
                          LAMBDA Ci, i :
                              [Ci EXCEPT ![i + j * ldC] =
                                  IF beta = 0 THEN fmul(temp0, B[i + j * ldB])
                                  ELSE fadd(fmul(beta, @), fmul(temp0, B[i + j * ldB]))],
                          Cj)
                  add(Ck, k) ==
                      LET temp1 == IF (k < j) = upper
                                   THEN fmul(alpha, A[k + j * ldA])
                                   ELSE fmul(alpha, A[j + k * ldA])
                      IN  ForUp(0, m,
                                LAMBDA Ci, i :
                                    [Ci EXCEPT ![i + j * ldC] =
                                        fadd(@, fmul(temp1, B[i + k * ldB]))],
                                Ck)
              IN  ForUp(j + 1, n, add, ForUp(0, j, add, C0)),
          C)

dsymm(side, uplo, m, n, alpha, ldA, ldB, beta, ldC, b) ==
    LET nrowA == IF side = "Left" THEN m ELSE n
        upper == uplo = "Upper"
    IN  IF side \notin BLASSide THEN Throw(b, "DSYMM: Invalid SIDE parameter")
        ELSE IF uplo \notin BLASUplo THEN Throw(b, "DSYMM: Invalid UPLO parameter")
        ELSE IF m < 0 THEN Throw(b, "DSYMM: M must be >= 0")
        ELSE IF n < 0 THEN Throw(b, "DSYMM: N must be >= 0")
        ELSE IF ldA < Max(1, nrowA) THEN Throw(b, "DSYMM: LDA must be >= max(1, nrowA)")
        ELSE IF ldB < Max(1, m) THEN Throw(b, "DSYMM: LDB must be >= max(1, M)")
        ELSE IF ldC < Max(1, m) THEN Throw(b, "DSYMM: LDC must be >= max(1, M)")
        ELSE IF m = 0 \/ n = 0 \/ (alpha = 0 /\ beta = 1) THEN b
        ELSE IF alpha = 0 THEN [b EXCEPT !.C = dgemm_alpha0(m, n, beta, b.C, ldC)]
        ELSE IF side = "Left"
        THEN [b EXCEPT !.C = dsymm_L(upper, m, n, alpha, b.A, ldA, b.B, ldB, beta, b.C, ldC)]
        ELSE [b EXCEPT !.C = dsymm_R(upper, m, n, alpha, b.A, ldA, b.B, ldB, beta, b.C, ldC)]

(***************************************************************************)
(* The caller.  Run applies one kernel call k to the caller's buffers and  *)
(* to the second copy's.                                                   *)
(***************************************************************************)
Run(name, k(_)) ==
    /\ mem' = k(mem)
    /\ alt' = IF alt = mem THEN k(mem) ELSE k(alt)
    /\ hist' = Append(hist, name)
    /\ UNCHANGED <<call, mem0, alt0>>

First(name) == hist = <<>> /\ call.fn = name

Call_daxpy ==
    /\ First("daxpy")
    /\ Run("daxpy", LAMBDA b : daxpy(call.n, call.alpha, b.x, call.incx, b.y, call.incy))

Call_dscal ==
    /\ First("dscal")
    /\ Run("dscal", LAMBDA b : dscal(call.n, call.alpha, b.x, call.incx))

Call_dcopy ==
    /\ First("dcopy")
    /\ Run("dcopy", LAMBDA b : dcopy(call.n, b.x, call.incx, b.y, call.incy))

Call_dswap ==
    /\ First("dswap")
    /\ Run("dswap", LAMBDA b : dswap(call.n, b.x, call.incx, b.y, call.incy))

Call_ddot ==
    /\ First("ddot")
    /\ Run("ddot", LAMBDA b : ddot(call.n, b.x, call.incx, b.y, call.incy))

Call_dasum ==
    /\ First("dasum")
    /\ Run("dasum", LAMBDA b : dasum(call.n, b.x, call.incx))

Call_idamax ==
    /\ First("idamax")
    /\ Run("idamax", LAMBDA b : idamax(call.n, b.x, call.incx))

Call_drot ==
    /\ First("drot")
    /\ Run("drot", LAMBDA b : drot(call.n, b.x, call.incx, b.y, call.incy, call.c, call.s))

(***************************************************************************)
(* Level 1 callers: every kernel, every length up to MaxN, every stride of *)
(* Strides, the buffers filled by every pattern.                           *)
(***************************************************************************)
L1TwoVec == {"daxpy", "dcopy", "dswap", "ddot"}

L1OneVec == {"dscal", "dasum", "idamax"}

\* The pairs (c, s) applied by drot: the identity, the quarter turn, two
\* others.
Rotations == {<<1, 0>>, <<0, 1>>, <<2, -1>>, <<-1, 2>>}

L1Calls ==
    {[fn |-> f, n |-> n, alpha |-> a, incx |-> ix, incy |-> iy] :
        f \in {"daxpy"}, n \in 0 .. MaxN, a \in Scalars, ix \in Strides, iy \in Strides}
    \cup
    {[fn |-> f, n |-> n, alpha |-> 1, incx |-> ix, incy |-> iy] :
        f \in L1TwoVec \ {"daxpy"}, n \in 0 .. MaxN, ix \in Strides, iy \in Strides}
    \cup
    {[fn |-> f, n |-> n, alpha |-> a, incx |-> ix, incy |-> 1] :
        f \in {"dscal"}, n \in 0 .. MaxN, a \in Scalars, ix \in Strides}
    \cup
    {[fn |-> f, n |-> n, alpha |-> 1, incx |-> ix, incy |-> 1] :
        f \in L1OneVec \ {"dscal"}, n \in 0 .. MaxN, ix \in Strides}
    \cup
    {[fn |-> "drot", n |-> n, alpha |-> 1, incx |-> ix, incy |-> iy, c |-> r[1], s |-> r[2]] :
        n \in 0 .. MaxN, ix \in Strides, iy \in Strides, r \in Rotations}

\* The values of the vectors searched by idamax: equal magnitudes among them.
TieVals == {-5, 1, 2, 3, 5}

\* The buffer whose logical elements, at stride inc, are those of the
\* sequence v, and whose other elements are 9.
Strided(v, inc) ==
    [p \in 0 .. VecLen(Len(v), inc) - 1 |->
        IF p % Abs(inc) = 0
        THEN v[1 + (IF inc > 0 THEN p \div inc ELSE Len(v) - 1 - (p \div (-inc)))]
        ELSE 9]

InitL1 ==
    /\ call \in L1Calls
    /\ \/ \E sx \in 1 .. NSeeds, sy \in 1 .. NSeeds :
             mem0 = [x |-> Vec(sx, VecLen(call.n, call.incx)),
                     y |-> IF call.fn \in L1TwoVec \cup {"drot"}
                           THEN [i \in 0 .. VecLen(call.n, call.incy) - 1 |->
                                    Pattern(sy, i + 4)]
                           ELSE <<>>]
       \/ /\ call.fn = "idamax" /\ call.n <= MaxTie
          /\ \E v \in [1 .. call.n -> TieVals] :
                mem0 = [x |-> Strided(v, call.incx), y |-> <<>>]
    /\ (call.fn \in L1OneVec => mem0.y = <<>>)
    /\ mem = [x |-> mem0.x, y |-> mem0.y, ret |-> 0, tr |-> <<>>]
    /\ alt0 = mem0
    /\ alt = mem
    /\ hist = <<>>

NextL1 ==
    \/ Call_daxpy
    \/ Call_dscal
    \/ Call_dcopy
    \/ Call_dswap
    \/ Call_ddot
    \/ Call_dasum
    \/ Call_idamax
    \/ Call_drot

SpecL1 == InitL1 /\ [][NextL1]_vars

(***************************************************************************)
(* Callers of dgemm and dgemv.  Matrices and the Level 2 vectors hold the  *)
(* values -2..2 of MatVal; a leading dimension is the least allowed one    *)
(* plus a padding of 0 or 1 rows.                                          *)
(***************************************************************************)
MatVal(s, p) == ((s * (3 * p + 1) + p * p) % 5) - 2

Mat(s, len) == [p \in 0 .. len - 1 |-> MatVal(s, p)]

\* The buffer holding the elements of a sequence, from offset 0.
ToBuf(seq) == [p \in 0 .. Len(seq) - 1 |-> seq[p + 1]]

Pads == {0, 1}

Call_dgemm ==
    /\ First("dgemm")
    /\ Run("dgemm", LAMBDA b : dgemm(call.transA, call.transB, call.m, call.n, call.k,
                                     call.alpha, call.ldA, call.ldB, call.beta, call.ldC, b))

Call_dgemv ==
    /\ First("dgemv")
    /\ Run("dgemv", LAMBDA b : dgemv(call.trans, call.m, call.n, call.alpha, call.ldA,
                                     call.incx, call.beta, call.incy, b))

NoTwin ==
    /\ alt0 = mem0
    /\ alt = mem
    /\ hist = <<>>

GemmCalls ==
    {[fn |-> "dgemm", transA |-> ta, transB |-> tb, m |-> m, n |-> n, k |-> k,
      alpha |-> al, beta |-> be,
      ldA |-> Max(1, IF ta = "NoTranspose" THEN m ELSE k) + pad,
      ldB |-> Max(1, IF tb = "NoTranspose" THEN k ELSE n) + pad,
      ldC |-> Max(1, m) + pad] :
        ta \in BLASTranspose, tb \in BLASTranspose,
        m \in 0 .. MaxDim, n \in 0 .. MaxDim, k \in 0 .. MaxDim,
        al \in Scalars, be \in Scalars, pad \in Pads}

\* dgemm(NoTranspose, NoTranspose, 2, 2, 2, 1.0, [1,3,2,4], 2, [5,7,6,8], 2, 0.0, [0,0,0,0], 2)
GemmExampleCall ==
    [fn |-> "dgemm", transA |-> "NoTranspose", transB |-> "NoTranspose",
     m |-> 2, n |-> 2, k |-> 2, alpha |-> 1, beta |-> 0, ldA |-> 2, ldB |-> 2, ldC |-> 2]

GemmExampleMem ==
    [A |-> ToBuf(<<1, 3, 2, 4>>), B |-> ToBuf(<<5, 7, 6, 8>>),
     C |-> ToBuf(<<0, 0, 0, 0>>), err |-> ""]

InitGemm ==
    /\ \/ /\ call \in GemmCalls
          /\ \E s \in 1 .. NSeeds :
                mem0 = [A |-> Mat(s, call.ldA * (IF call.transA = "NoTranspose"
                                                 THEN call.k ELSE call.m)),
                        B |-> Mat(s + 1, call.ldB * (IF call.transB = "NoTranspose"
                                                     THEN call.n ELSE call.k)),
                        C |-> Mat(s + 2, call.ldC * call.n),
                        err |-> ""]
       \/ /\ call = GemmExampleCall
          /\ mem0 = GemmExampleMem
    /\ mem = mem0
    /\ NoTwin

NextGemm == Call_dgemm

SpecGemm == InitGemm /\ [][NextGemm]_vars

GemvCalls ==
    {[fn |-> "dgemv", trans |-> t, m |-> m, n |-> n, alpha |-> al, beta |-> be,
      ldA |-> Max(1, m) + pad, incx |-> ix, incy |-> iy] :
        t \in BLASTranspose, m \in 0 .. MaxDim, n \in 0 .. MaxDim,
        al \in Scalars, be \in Scalars, pad \in Pads, ix \in Strides, iy \in Strides}

InitGemv ==
    /\ call \in GemvCalls
    /\ \E s \in 1 .. NSeeds :
          LET lenx == IF call.trans = "NoTranspose" THEN call.n ELSE call.m
              leny == IF call.trans = "NoTranspose" THEN call.m ELSE call.n
          IN  mem0 = [A |-> Mat(s, call.ldA * call.n),
                      x |-> Mat(s + 1, VecLen(lenx, call.incx)),
                      y |-> Mat(s + 2, VecLen(leny, call.incy)),
                      err |-> ""]
    /\ mem = mem0
    /\ NoTwin

NextGemv == Call_dgemv

SpecGemv == InitGemv /\ [][NextGemv]_vars

(***************************************************************************)
(* Callers of dtrmm and dtrsm: every side, uplo, transA and diag, B of m   *)
(* by n with m, n <= MaxTri, a triangular A whose diagonal entries are 1,  *)
(* 2 or -1 (A is invertible) and whose other entries are those of MatVal.  *)
(* A caller of dtrmm may go on to call dtrsm with the same arguments.      *)
(***************************************************************************)
DiagVal(s, j) == <<1, 2, -1>>[((s + j) % 3) + 1]

TriMat(s, ld, ncol) ==
    [p \in 0 .. ld * ncol - 1 |->
        IF p % ld = p \div ld THEN R(DiagVal(s, p \div ld)) ELSE R(MatVal(s, p))]

RMat(s, len) == [p \in 0 .. len - 1 |-> R(MatVal(s, p))]

Call_dtrmm ==
    /\ First("dtrmm")
    /\ Run("dtrmm", LAMBDA b : dtrmm(call.side, call.uplo, call.transA, call.diag, call.m,
                                     call.n, R(call.alpha), call.ldA, call.ldB, b))

Call_dtrsm ==
    /\ First("dtrsm") \/ (call.fn = "dtrmm" /\ hist = <<"dtrmm">>)
    /\ Run("dtrsm", LAMBDA b : dtrsm(call.side, call.uplo, call.transA, call.diag, call.m,
                                     call.n, R(call.alpha), call.ldA, call.ldB, b))

TrsmCalls ==
    {[fn |-> f, side |-> sd, uplo |-> ul, transA |-> ta, diag |-> dg, m |-> m, n |-> n,
      alpha |-> al,
      ldA |-> Max(1, IF sd = "Left" THEN m ELSE n) + pad,
      ldB |-> Max(1, m) + pad] :
        f \in {"dtrmm", "dtrsm"}, sd \in BLASSide, ul \in BLASUplo, ta \in BLASTranspose,
        dg \in BLASDiag, m \in 0 .. MaxTri, n \in 0 .. MaxTri, al \in Scalars, pad \in Pads}

\* dtrsm(Left, Lower, Transpose, NonUnit, 2, 2, 1.0, [2,3,0,4], 2, [2,12,4,20], 2)
TrsmExampleCall ==
    [fn |-> "dtrsm", side |-> "Left", uplo |-> "Lower", transA |-> "Transpose",
     diag |-> "NonUnit", m |-> 2, n |-> 2, alpha |-> 1, ldA |-> 2, ldB |-> 2]

TrsmExampleMem ==
    [A |-> ToBuf(<<R(2), R(3), R(0), R(4)>>),
     B |-> ToBuf(<<R(2), R(12), R(4), R(20)>>), err |-> ""]

InitTrsm ==
    /\ \/ /\ call \in TrsmCalls
          /\ \E s \in 1 .. NSeeds :
                mem0 = [A |-> TriMat(s, call.ldA, IF call.side = "Left" THEN call.m ELSE call.n),
                        B |-> RMat(s + 1, call.ldB * call.n),
                        err |-> ""]
       \/ /\ call = TrsmExampleCall
          /\ mem0 = TrsmExampleMem
    /\ mem = mem0
    /\ NoTwin

NextTrsm ==
    \/ Call_dtrmm
    \/ Call_dtrsm

SpecTrsm == InitTrsm /\ [][NextTrsm]_vars

(***************************************************************************)
(* Callers of the symmetric updates: every uplo and trans, n <= MaxTri,    *)
(* k <= MaxDim, every stride of Strides, alpha and beta of Scalars.        *)
(***************************************************************************)
Call_dsyr ==
    /\ First("dsyr")
    /\ Run("dsyr", LAMBDA b : dsyr(call.uplo, call.n, call.alpha, call.incx, call.ldA, b))

Call_dsyr2 ==
    /\ First("dsyr2")
    /\ Run("dsyr2", LAMBDA b : dsyr2(call.uplo, call.n, call.alpha, call.incx, call.incy,
                                     call.ldA, b))

Call_dsyrk ==
    /\ First("dsyrk")
    /\ Run("dsyrk", LAMBDA b : dsyrk(call.uplo, call.trans, call.n, call.k, call.alpha,
                                     call.ldA, call.beta, call.ldC, b))

Call_dsyr2k ==
    /\ First("dsyr2k")
    /\ Run("dsyr2k", LAMBDA b : dsyr2k(call.uplo, call.trans, call.n, call.k, call.alpha,
                                       call.ldA, call.ldB, call.beta, call.ldC, b))

SyrCalls ==
    {[fn |-> f, uplo |-> ul, trans |-> "NoTranspose", n |-> n, k |-> 0, alpha |-> al,
      beta |-> 1, incx |-> ix, incy |-> iy,
      ldA |-> Max(1, n) + pad, ldB |-> 1, ldC |-> 1] :
        f \in {"dsyr", "dsyr2"}, ul \in BLASUplo, n \in 0 .. MaxTri, al \in Scalars,
        ix \in Strides, iy \in Strides, pad \in Pads}

SyrkCalls ==
    {[fn |-> f, uplo |-> ul, trans |-> t, n |-> n, k |-> k, alpha |-> al, beta |-> be,
      incx |-> 1, incy |-> 1,
      ldA |-> Max(1, IF t = "NoTranspose" THEN n ELSE k) + pad,
      ldB |-> Max(1, IF t = "NoTranspose" THEN n ELSE k) + pad,
      ldC |-> Max(1, n) + pad] :
        f \in {"dsyrk", "dsyr2k"}, ul \in BLASUplo, t \in BLASTranspose, n \in 0 .. MaxTri,
        k \in 0 .. MaxDim, al \in Scalars, be \in Scalars, pad \in Pads}

\* The buffers of a call to a symmetric update, filled from seed s.
SyrMem(s) ==
    IF call.fn \in {"dsyr", "dsyr2"}
    THEN [x |-> Mat(s + 1, VecLen(call.n, call.incx)),
          y |-> Mat(s + 2, VecLen(call.n, call.incy)),
          A |-> Mat(s, call.ldA * call.n),
          err |-> "", wr |-> {}]
    ELSE [A |-> Mat(s, call.ldA * (IF call.trans = "NoTranspose" THEN call.k ELSE call.n)),
          B |-> Mat(s + 1, call.ldB * (IF call.trans = "NoTranspose" THEN call.k ELSE call.n)),
          C |-> Mat(s + 2, call.ldC * call.n),
          err |-> "", wr |-> {}]

InitSyr ==
    /\ call \in SyrCalls \cup SyrkCalls
    /\ call.fn = "dsyr" => call.incy = 1
    /\ \E s \in 1 .. NSeeds : mem0 = SyrMem(s)
    /\ mem = mem0
    /\ NoTwin

NextSyr ==
    \/ Call_dsyr
    \/ Call_dsyr2
    \/ Call_dsyrk
    \/ Call_dsyr2k

SpecSyr == InitSyr /\ [][NextSyr]_vars

(***************************************************************************)
(* Claims about the Level 1 kernels.                                       *)
(***************************************************************************)
Returned(f) == hist = <<f>>

\* The trace tr visits each of the offsets 0..n-1 once and nothing else,
\* as pairs (two-vector kernels) or as single offsets.
OncePairs(tr, n) ==
    Len(tr) = n /\ {tr[k] : k \in 1 .. Len(tr)} = {<<i, i>> : i \in 0 .. n - 1}

OnceEach(tr, n) ==
    Len(tr) = n /\ {tr[k] : k \in 1 .. Len(tr)} = 0 .. n - 1

\* C5: daxpy adds alpha*x[i] to y[i] for every logical index i < n and every
\* pair of non-zero strides, logical element i of a negative stride being at
\* offset (n-1-i)*|inc|; x and the elements of y off the stride keep their
\* values; daxpy(4, 2, [1,2,3,4], 1, [5,6,7,8], 1) makes y = [7,10,13,16].
C5_DaxpyAddsOnStride ==
    Returned("daxpy") =>
        /\ \A i \in 0 .. call.n - 1 :
              Elem(mem.y, call.n, call.incy, i)
                  = fadd(Elem(mem0.y, call.n, call.incy, i),
                         fmul(call.alpha, Elem(mem0.x, call.n, call.incx, i)))
        /\ mem.x = mem0.x
        /\ DOMAIN mem.y = DOMAIN mem0.y
        /\ \A j \in DOMAIN mem0.y \ OnStride(call.n, call.incy) : mem.y[j] = mem0.y[j]
        /\ ( /\ call.n = 4 /\ call.alpha = 2 /\ call.incx = 1 /\ call.incy = 1
             /\ mem0.x = [i \in 0 .. 3 |-> i + 1]
             /\ mem0.y = [i \in 0 .. 3 |-> i + 5]
             => mem.y = [i \in 0 .. 3 |-> 7 + 3 * i] )

\* A daxpy call with a negative and a non-unit positive stride has returned
\* and changed y.
C5_Witness ==
    /\ Returned("daxpy")
    /\ call.n = 3 /\ call.incx = -1 /\ call.incy = 2 /\ call.alpha = 2
    /\ mem0.x = [i \in 0 .. 2 |-> i + 1]
    /\ mem.y[0] = mem0.y[0] + 6
    /\ mem.y[4] = mem0.y[4] + 2
    /\ mem.y[1] = mem0.y[1]

UnitCall(f) == Returned(f) /\ call.incx = 1 /\ call.incy = 1

\* C6: for every n >= 0 and each of daxpy, dscal, dcopy, dswap, ddot and
\* dasum, the unit-stride unrolled path gives the same buffers and the same
\* returned value as the generic strided loop run with stride 1, and touches
\* each index 0..n-1 exactly once and no other.
C6_UnrolledEqualsStrided ==
    /\ UnitCall("daxpy") /\ call.alpha # 0 =>
          LET g == daxpy_strided(call.n, call.alpha, mem0.x, 1, mem0.y, 1)
          IN  mem.x = g.x /\ mem.y = g.y /\ OncePairs(mem.tr, call.n)
    /\ UnitCall("dscal") /\ call.alpha # 1 =>
          LET g == ForUp(0, call.n, LAMBDA st, i : dscal_at(st, call.alpha, i),
                         L1State(mem0.x, <<>>))
          IN  mem.x = g.x /\ OnceEach(mem.tr, call.n)
    /\ UnitCall("dcopy") =>
          LET g == dcopy_strided(call.n, mem0.x, 1, mem0.y, 1)
          IN  mem.x = g.x /\ mem.y = g.y /\ OncePairs(mem.tr, call.n)
    /\ UnitCall("dswap") =>
          LET g == dswap_strided(call.n, mem0.x, 1, mem0.y, 1)
          IN  mem.x = g.x /\ mem.y = g.y /\ OncePairs(mem.tr, call.n)
    /\ UnitCall("ddot") =>
          LET g == ddot_strided(call.n, mem0.x, 1, mem0.y, 1)
          IN  mem.ret = g.acc /\ OncePairs(mem.tr, call.n)
    /\ UnitCall("dasum") =>
          LET g == dasum_strided(call.n, mem0.x, 1)
          IN  mem.ret = g.acc /\ OnceEach(mem.tr, call.n)

\* C6 without dasum's returned value (not a claim: what remains true).
C6_AllButDasumValue ==
    /\ UnitCall("dasum") => OnceEach(mem.tr, call.n)
    /\ ~UnitCall("dasum") => C6_UnrolledEqualsStrided

(***************************************************************************)
\* The offsets a strided traversal of n elements visits, in order of visit.
Walk(n, inc) == [k \in 1 .. n |-> StartOff(n, inc) + (k - 1) * inc]

WalkPairs(n, incx, incy) == [k \in 1 .. n |-> <<Walk(n, incx)[k], Walk(n, incy)[k]>>]

\* dtemp after the logical elements 0..k-1, each term added in turn.
RECURSIVE DotTo(_, _, _)
DotTo(k, x, y) ==
    IF k <= 0 THEN 0
    ELSE fadd(DotTo(k - 1, x, y),
              fmul(Elem(x, call.n, call.incx, k - 1), Elem(y, call.n, call.incy, k - 1)))

RECURSIVE AsumTo(_, _)
AsumTo(k, x) ==
    IF k <= 0 THEN 0 ELSE fadd(AsumTo(k - 1, x), Abs(Elem(x, call.n, call.incx, k - 1)))

NegStride(f) == Returned(f) /\ (call.incx < 0 \/ call.incy < 0)

\* What a two-vector kernel does on a call with a negative stride: step k
\* touches offsets StartOff + k*inc of x and of y, that is logical element k.
TwoVecBackward ==
    /\ NegStride("daxpy") /\ call.alpha # 0 =>
          /\ mem.tr = WalkPairs(call.n, call.incx, call.incy)
          /\ mem.x = mem0.x
          /\ \A i \in 0 .. call.n - 1 :
                Elem(mem.y, call.n, call.incy, i)
                    = fadd(Elem(mem0.y, call.n, call.incy, i),
                           fmul(call.alpha, Elem(mem0.x, call.n, call.incx, i)))
    /\ NegStride("dcopy") =>
          /\ mem.tr = WalkPairs(call.n, call.incx, call.incy)
          /\ mem.x = mem0.x
          /\ \A i \in 0 .. call.n - 1 :
                Elem(mem.y, call.n, call.incy, i) = Elem(mem0.x, call.n, call.incx, i)
    /\ NegStride("dswap") =>
          /\ mem.tr = WalkPairs(call.n, call.incx, call.incy)
          /\ \A i \in 0 .. call.n - 1 :
                /\ Elem(mem.y, call.n, call.incy, i) = Elem(mem0.x, call.n, call.incx, i)
                /\ Elem(mem.x, call.n, call.incx, i) = Elem(mem0.y, call.n, call.incy, i)
    /\ NegStride("ddot") =>
          /\ mem.tr = WalkPairs(call.n, call.incx, call.incy)
          /\ mem.ret = DotTo(call.n, mem0.x, mem0.y)

\* C7 (as amended): daxpy, dcopy, dswap and ddot accept a negative stride and
\* process all n logical elements, walking the buffer backward from offset
\* (n-1)*|inc|; dscal, dasum and idamax return at once when incx < 0, touching
\* no element: dscal leaves x unchanged, dasum returns 0 and idamax returns 0.
C7_NegativeStride ==
    /\ TwoVecBackward
    /\ \A f \in L1OneVec :
          Returned(f) /\ call.incx < 0 =>
              mem.x = mem0.x /\ mem.ret = 0 /\ mem.tr = <<>>

\* dscal(3, 2, x, -1) has returned and x, which holds no zero, is unchanged.
C7_Witness ==
    /\ Returned("dscal")
    /\ call.n = 3 /\ call.alpha = 2 /\ call.incx = -1
    /\ \A i \in 0 .. 2 : mem0.x[i] # 0
    /\ mem.x = mem0.x

\* C7 (as stated): every Level 1 kernel processes all n logical elements on a
\* negative stride; dscal(n, alpha, x, -1) multiplies all n elements by alpha,
\* dasum(n, x, -1) returns the sum of the n absolute values and idamax(n, x, -1)
\* returns the index of an element of largest absolute value.
C7_EveryKernelNegativeStride ==
    /\ TwoVecBackward
    /\ Returned("dscal") /\ call.incx < 0 =>
          \A i \in 0 .. call.n - 1 :
              Elem(mem.x, call.n, call.incx, i)
                  = fmul(call.alpha, Elem(mem0.x, call.n, call.incx, i))
    /\ Returned("dasum") /\ call.incx < 0 => mem.ret = AsumTo(call.n, mem0.x)
    /\ Returned("idamax") /\ call.incx < 0 /\ call.n > 0 =>
          \A i \in 0 .. call.n - 1 :
              Abs(Elem(mem0.x, call.n, call.incx, mem.ret))
                  >= Abs(Elem(mem0.x, call.n, call.incx, i))

\* C16: idamax(n, x, incx) with n >= 1 and incx >= 1 returns the 0-based
\* logical index of the first element whose absolute value equals the maximum
\* of |x[k*incx]| over k < n (ties resolve to the lowest index), and returns 0
\* when n < 1 or incx <= 0; idamax(4, [1,-5,3,2], 1) = 1 and
\* idamax(3, [5,-5,3], 1) = 0.  x is left as it was.
C16_IdamaxFirstMaximum ==
    Returned("idamax") =>
        /\ mem.x = mem0.x
        /\ call.n < 1 \/ call.incx <= 0 => mem.ret = 0
        /\ call.n >= 1 /\ call.incx >= 1 =>
              LET mag(k) == Abs(mem0.x[k * call.incx])
              IN  /\ mem.ret \in 0 .. call.n - 1
                  /\ \A k \in 0 .. call.n - 1 : mag(k) <= mag(mem.ret)
                  /\ \A k \in 0 .. mem.ret - 1 : mag(k) < mag(mem.ret)
        /\ call.incx = 1 /\ mem0.x = ToBuf(<<1, -5, 3, 2>>) => mem.ret = 1
        /\ call.incx = 1 /\ mem0.x = ToBuf(<<5, -5, 3>>) => mem.ret = 0

\* idamax(3, x, 2) has returned 1 for x = [3, 9, -5, 9, 5]: of the logical
\* elements 3, -5, 5 the first of the two of magnitude 5; the larger elements
\* off the stride do not count.
C16_Witness ==
    /\ Returned("idamax")
    /\ call.n = 3 /\ call.incx = 2
    /\ mem0.x = ToBuf(<<3, 9, -5, 9, 5>>)
    /\ mem.ret = 1

\* The 0-based buffer offset of logical element i of a vector of n elements
\* at stride inc.
Off(n, inc, i) == IF inc > 0 THEN i * inc ELSE (n - 1 - i) * (-inc)

\* C19: drot replaces every logical pair (x[i], y[i]), i < n, by
\* (c*x_in[i] + s*y_in[i], c*y_in[i] - s*x_in[i]), both computed from the
\* values at entry, for unit, non-unit and negative strides; hence c = 1,
\* s = 0 leaves both vectors unchanged and c = 0, s = 1 gives x = y_in,
\* y = -x_in; elements off the stride are untouched.
C19_DrotRotatesPairs ==
    Returned("drot") =>
        LET n == call.n
            xin(i) == Elem(mem0.x, n, call.incx, i)
            yin(i) == Elem(mem0.y, n, call.incy, i)
        IN  /\ \A i \in 0 .. n - 1 :
                  /\ Elem(mem.x, n, call.incx, i)
                        = fadd(fmul(call.c, xin(i)), fmul(call.s, yin(i)))
                  /\ Elem(mem.y, n, call.incy, i)
                        = fsub(fmul(call.c, yin(i)), fmul(call.s, xin(i)))
            /\ \A p \in DOMAIN mem0.x : p \notin OnStride(n, call.incx) => mem.x[p] = mem0.x[p]
            /\ \A p \in DOMAIN mem0.y : p \notin OnStride(n, call.incy) => mem.y[p] = mem0.y[p]
            /\ DOMAIN mem.x = DOMAIN mem0.x /\ DOMAIN mem.y = DOMAIN mem0.y
            /\ call.c = 1 /\ call.s = 0 => mem.x = mem0.x /\ mem.y = mem0.y
            /\ call.c = 0 /\ call.s = 1 =>
                  \A i \in 0 .. n - 1 :
                      /\ Elem(mem.x, n, call.incx, i) = yin(i)
                      /\ Elem(mem.y, n, call.incy, i) = -xin(i)
            /\ Len(mem.tr) = n
            /\ \A i \in 0 .. n - 1 :
                  mem.tr[i + 1] = <<Off(n, call.incx, i), Off(n, call.incy, i)>>

\* drot(3, x, -2, y, 1, c = 2, s = -1) has returned, with both vectors changed.
C19_Witness ==
    /\ Returned("drot")
    /\ call.n = 3 /\ call.incx = -2 /\ call.incy = 1 /\ call.c = 2 /\ call.s = -1
    /\ \A i \in 0 .. 2 :
          /\ mem.x[(2 - i) * 2] = 2 * mem0.x[(2 - i) * 2] - mem0.y[i]
          /\ mem.y[i] = 2 * mem0.y[i] + mem0.x[(2 - i) * 2]
    /\ mem.x # mem0.x /\ mem.y # mem0.y

\* C25: ddot and dasum accumulate into one running scalar in traversal
\* order: on a unit-stride call of any n the value returned is the
\* left-to-right chain ((...((0 + t_0) + t_1) ...) + t_{n-1}), with
\* t_i = x[i]*y[i] for ddot and t_i = |x[i]| for dasum, each term added to
\* the accumulator by itself.
C25_SingleRunningScalar ==
    /\ UnitCall("ddot") => mem.ret = DotTo(call.n, mem0.x, mem0.y)
    /\ Returned("dasum") /\ call.incx = 1 => mem.ret = AsumTo(call.n, mem0.x)

\* C25 where it holds (not the claim: what remains true): ddot for every n,
\* dasum while n < 6, that is before the first unrolled block.
C25_AllButDasumBlocks ==
    /\ UnitCall("ddot") => mem.ret = DotTo(call.n, mem0.x, mem0.y)
    /\ Returned("dasum") /\ call.incx = 1 /\ call.n < 6 =>
          mem.ret = AsumTo(call.n, mem0.x)

(* Claims about dgemm and dgemv.                                           *)
(***************************************************************************)
\* The sum of f(l) over l = 0..k-1, in exact arithmetic.
RECURSIVE SumTo(_, _)
SumTo(k, f) == IF k <= 0 THEN 0 ELSE SumTo(k - 1, f) + f[k - 1]

\* op(M)(i, l) for a column-major buffer M with leading dimension ld.
OpElem(trans, M, ld, i, l) == IF trans = "NoTranspose" THEN M[i + l * ld] ELSE M[l + i * ld]

\* C3: dgemm sets C(i,j) = alpha * sum_{l<k} op(A)(i,l)*op(B)(l,j) + beta*C_in(i,j)
\* for all i < m, j < n and each NoTranspose/Transpose combination
\* (ConjugateTranspose as Transpose), element (i,j) at i + j*ld; the example
\* A=[1,3,2,4], B=[5,7,6,8], alpha=1, beta=0 gives C=[19,43,22,50].
C3_GemmComputesProduct ==
    Returned("dgemm") =>
        /\ \A i \in 0 .. call.m - 1, j \in 0 .. call.n - 1 :
              mem.C[i + j * call.ldC]
                  = call.alpha
                      * SumTo(call.k, [l \in 0 .. call.k - 1 |->
                            OpElem(call.transA, mem0.A, call.ldA, i, l)
                              * OpElem(call.transB, mem0.B, call.ldB, l, j)])
                    + call.beta * mem0.C[i + j * call.ldC]
        /\ (call = GemmExampleCall /\ mem0 = GemmExampleMem
                => mem.C = ToBuf(<<19, 43, 22, 50>>))

\* dgemm has returned from a call with both operands transposed, a 2x2x2
\* product, alpha = 2 and beta = -1, and has changed C.
C3_Witness ==
    /\ Returned("dgemm")
    /\ call.transA = "Transpose" /\ call.transB = "ConjugateTranspose"
    /\ call.m = 2 /\ call.n = 2 /\ call.k = 2 /\ call.alpha = 2 /\ call.beta = -1
    /\ \A i \in 0 .. 1, j \in 0 .. 1 :
          mem.C[i + j * call.ldC] # -mem0.C[i + j * call.ldC]

\* C4: dgemv sets y := alpha*op(A)*x + beta*y_in for NoTranspose (x of length
\* n, y of length m) and Transpose/ConjugateTranspose (x of length m, y of
\* length n), for every non-zero incx and incy; y is unchanged when m == 0,
\* n == 0 or (alpha == 0 and beta == 1).
C4_GemvComputesProduct ==
    Returned("dgemv") =>
        LET notT == call.trans = "NoTranspose"
            lenx == IF notT THEN call.n ELSE call.m
            leny == IF notT THEN call.m ELSE call.n
        IN  IF call.m = 0 \/ call.n = 0 \/ (call.alpha = 0 /\ call.beta = 1)
            THEN mem.y = mem0.y
            ELSE \A i \in 0 .. leny - 1 :
                    Elem(mem.y, leny, call.incy, i)
                        = call.alpha
                            * SumTo(lenx, [l \in 0 .. lenx - 1 |->
                                  OpElem(call.trans, mem0.A, call.ldA, i, l)
                                    * Elem(mem0.x, lenx, call.incx, l)])
                          + call.beta * Elem(mem0.y, leny, call.incy, i)

\* dgemv has returned from a transposed 2x2 call with a negative non-unit
\* incx and a negative incy, and has changed y.
C4_Witness ==
    /\ Returned("dgemv")
    /\ call.trans = "Transpose" /\ call.m = 2 /\ call.n = 2
    /\ call.incx = -2 /\ call.incy = -1 /\ call.alpha = 2 /\ call.beta = -1
    /\ mem.y[0] # -mem0.y[0] /\ mem.y[1] # -mem0.y[1]

(***************************************************************************)
(* Claims about dtrmm and dtrsm.                                           *)
(***************************************************************************)
\* The sum of f[l] over l = 0..k-1, in exact fractions.
RECURSIVE RSumTo(_, _)
RSumTo(k, f) == IF k <= 0 THEN R(0) ELSE radd(RSumTo(k - 1, f), f[k - 1])

\* Element (i, j) of the triangular matrix that uplo, diag and the buffer A
\* denote, and of op(A).
TriElem(A, i, j) ==
    IF i = j THEN (IF call.diag = "Unit" THEN R(1) ELSE A[i + i * call.ldA])
    ELSE IF (call.uplo = "Upper" /\ i < j) \/ (call.uplo = "Lower" /\ i > j)
    THEN A[i + j * call.ldA]
    ELSE R(0)

OpTri(A, i, j) == IF call.transA = "NoTranspose" THEN TriElem(A, i, j) ELSE TriElem(A, j, i)

\* X solves op(A)*X = alpha*B0 (Left) or X*op(A) = alpha*B0 (Right).
Solves(A, X, B0) ==
    \A i \in 0 .. call.m - 1, j \in 0 .. call.n - 1 :
        rmul(R(call.alpha), B0[i + j * call.ldB])
            = IF call.side = "Left"
              THEN RSumTo(call.m, [l \in 0 .. call.m - 1 |->
                        rmul(OpTri(A, i, l), X[l + j * call.ldB])])
              ELSE RSumTo(call.n, [l \in 0 .. call.n - 1 |->
                        rmul(X[i + l * call.ldB], OpTri(A, l, j))])

LeftLowerTranspose ==
    call.side = "Left" /\ call.uplo = "Lower" /\ call.transA # "NoTranspose"

\* C1: dtrsm overwrites B with the X such that op(A)*X = alpha*B_in (Left) or
\* X*op(A) = alpha*B_in (Right), op(A) being A or its transpose, for every
\* side, uplo, transA, diag and every m, n >= 0.
C1_TrsmSolves ==
    hist = <<"dtrsm">> => Solves(mem0.A, mem.B, mem0.B)

\* C1 on every branch but Left, Lower, Transpose (not the claim: what remains
\* true); on that branch dtrsm solves A*X = alpha*B_in.
C1_AllButLeftLowerTranspose ==
    /\ hist = <<"dtrsm">> /\ ~LeftLowerTranspose => Solves(mem0.A, mem.B, mem0.B)
    /\ hist = <<"dtrsm">> /\ LeftLowerTranspose =>
          \A i \in 0 .. call.m - 1, j \in 0 .. call.n - 1 :
              rmul(R(call.alpha), mem0.B[i + j * call.ldB])
                  = RSumTo(call.m, [l \in 0 .. call.m - 1 |->
                        rmul(TriElem(mem0.A, i, l), mem.B[l + j * call.ldB])])
    /\ hist = <<"dtrsm">> /\ call = TrsmExampleCall /\ mem0 = TrsmExampleMem =>
          mem.B = ToBuf(<<R(1), Frac(9, 4), R(2), Frac(7, 2)>>)

\* C2: dtrmm with alpha = 1 followed by dtrsm with the same arguments leaves
\* B equal to its value before the dtrmm call, for every side, uplo, transA
\* and diag and every invertible triangular A.
C2_TrsmInvertsTrmm ==
    hist = <<"dtrmm", "dtrsm">> /\ call.alpha = 1 => mem.B = mem0.B

\* C2 on every branch but Left, Lower, Transpose (not the claim: what remains
\* true).
C2_AllButLeftLowerTranspose ==
    hist = <<"dtrmm", "dtrsm">> /\ call.alpha = 1 /\ ~LeftLowerTranspose => mem.B = mem0.B

(***************************************************************************)
(* Claims about the symmetric updates.                                     *)
(***************************************************************************)
\* The matrix a symmetric update writes (A of dsyr and dsyr2, C of dsyrk and
\* dsyr2k) in the buffers b, and its leading dimension.
OutMat(b) == IF call.fn \in {"dsyr", "dsyr2"} THEN b.A ELSE b.C

OutLd == IF call.fn \in {"dsyr", "dsyr2"} THEN call.ldA ELSE call.ldC

\* (i, j) lies in the declared triangle; in the strictly opposite one.
InTri(i, j) == IF call.uplo = "Upper" THEN i <= j ELSE i >= j

SymUpdates == {"dsyr", "dsyr2", "dsyrk", "dsyr2k"}

\* C8: dsyr, dsyr2, dsyrk and dsyr2k write only elements of the declared
\* triangle (i <= j for Upper, i >= j for Lower): every offset written during
\* the call is one of that triangle, and each element of the strictly
\* opposite triangle holds the value it had at entry, for every alpha, beta,
\* trans and stride.
C8_WritesOnlyDeclaredTriangle ==
    \A f \in SymUpdates :
        Returned(f) =>
            /\ mem.wr \subseteq {i + j * OutLd : i \in 0 .. call.n - 1, j \in 0 .. call.n - 1}
            /\ \A i \in 0 .. call.n - 1, j \in 0 .. call.n - 1 :
                  ~InTri(i, j) =>
                      /\ (i + j * OutLd) \notin mem.wr
                      /\ OutMat(mem)[i + j * OutLd] = OutMat(mem0)[i + j * OutLd]

\* dsyrk(Upper, NoTranspose, n=3, k=2, alpha=1, A, ldA=3, beta=0, C, ldC=3)
\* has returned, having written the six elements of the upper triangle of C.
C8_Witness ==
    /\ Returned("dsyrk")
    /\ call.uplo = "Upper" /\ call.trans = "NoTranspose" /\ call.n = 3 /\ call.k = 2
    /\ call.alpha = 1 /\ call.beta = 0 /\ call.ldA = 3 /\ call.ldC = 3
    /\ mem.wr = {0, 3, 4, 6, 7, 8}
    /\ mem.C # mem0.C

(***************************************************************************)
(* Callers of the routines that take uplo, run twice: on the buffers mem0  *)
(* and on a second copy alt0 that differs from mem0 only in entries of the *)
(* matrix uplo governs (A, or C for dsyrk and dsyr2k): in its diagonal, or *)
(* in its strictly opposite triangle.                                      *)
(***************************************************************************)
Call_dtrmv ==
    /\ First("dtrmv")
    /\ Run("dtrmv", LAMBDA b : dtrmv(call.uplo, call.trans, call.diag, call.n, call.ldA,
                                     call.incx, b))

Call_dtrsv ==
    /\ First("dtrsv")
    /\ Run("dtrsv", LAMBDA b : dtrsv(call.uplo, call.trans, call.diag, call.n, call.ldA,
                                     call.incx, b))

Call_dsymv ==
    /\ First("dsymv")
    /\ Run("dsymv", LAMBDA b : dsymv(call.uplo, call.n, call.alpha, call.ldA, call.incx,
                                     call.beta, call.incy, b))

Call_dsymm ==
    /\ First("dsymm")
    /\ Run("dsymm", LAMBDA b : dsymm(call.side, call.uplo, call.m, call.n, call.alpha,
                                     call.ldA, call.ldB, call.beta, call.ldC, b))

TrmvCalls ==
    {[fn |-> f, uplo |-> ul, trans |-> t, diag |-> dg, n |-> n, incx |-> ix,
      ldA |-> Max(1, n) + pad] :
        f \in {"dtrmv", "dtrsv"}, ul \in BLASUplo, t \in BLASTranspose, dg \in BLASDiag,
        n \in 0 .. MaxTri, ix \in Strides, pad \in Pads}

SymCalls ==
    {[fn |-> "dsymv", uplo |-> ul, n |-> n, alpha |-> al, beta |-> be, incx |-> ix,
      incy |-> iy, ldA |-> Max(1, n) + pad] :
        ul \in BLASUplo, n \in 0 .. MaxTri, al \in Scalars, be \in Scalars,
        ix \in Strides, iy \in Strides, pad \in Pads}
    \cup
    {[fn |-> "dsymm", side |-> sd, uplo |-> ul, m |-> m, n |-> n, alpha |-> al, beta |-> be,
      ldA |-> Max(1, IF sd = "Left" THEN m ELSE n) + pad,
      ldB |-> Max(1, m) + pad, ldC |-> Max(1, m) + pad] :
        sd \in BLASSide, ul \in BLASUplo, m \in 0 .. MaxTri, n \in 0 .. MaxTri,
        al \in Scalars, be \in Scalars, pad \in Pads}

Triangular == {"dtrmv", "dtrsv", "dtrmm", "dtrsm"}

\* The matrix uplo governs in the buffers b, its leading dimension, its order.
UploMat(b) == IF call.fn \in {"dsyrk", "dsyr2k"} THEN b.C ELSE b.A

UploLd == IF call.fn \in {"dsyrk", "dsyr2k"} THEN call.ldC ELSE call.ldA

UploOrder ==
    IF call.fn \in {"dtrmm", "dtrsm", "dsymm"}
    THEN (IF call.side = "Left" THEN call.m ELSE call.n)
    ELSE call.n

\* The buffers of a call, filled from seed s.
TwinMem(s) ==
    CASE call.fn \in {"dtrmv", "dtrsv"} ->
            [A |-> TriMat(s, call.ldA, call.n),
             x |-> RMat(s + 1, VecLen(call.n, call.incx)), err |-> ""]
      [] call.fn \in {"dtrmm", "dtrsm"} ->
            [A |-> TriMat(s, call.ldA, UploOrder),
             B |-> RMat(s + 1, call.ldB * call.n), err |-> ""]
      [] call.fn = "dsymv" ->
            [A |-> Mat(s, call.ldA * call.n),
             x |-> Mat(s + 1, VecLen(call.n, call.incx)),
             y |-> Mat(s + 2, VecLen(call.n, call.incy)), err |-> ""]
      [] call.fn = "dsymm" ->
            [A |-> Mat(s, call.ldA * UploOrder),
             B |-> Mat(s + 1, call.ldB * call.n),
             C |-> Mat(s + 2, call.ldC * call.n), err |-> ""]
      [] OTHER -> SyrMem(s)

\* M with other values on its diagonal (kind "diag") or in its strictly
\* opposite triangle (kind "half").
Changed(M, kind) ==
    [p \in DOMAIN M |->
        LET i == p % UploLd
            j == p \div UploLd
            d == (IF kind = "diag" THEN 3 ELSE 1) + (p % 2)
        IN  IF i < UploOrder /\ (IF kind = "diag" THEN i = j ELSE i # j /\ ~InTri(i, j))
            THEN (IF call.fn \in Triangular THEN radd(M[p], R(d)) ELSE M[p] + d)
            ELSE M[p]]

InitTwin ==
    /\ call \in TrmvCalls \cup TrsmCalls \cup SymCalls \cup SyrkCalls
    /\ \E s \in 1 .. NSeeds : mem0 = TwinMem(s)
    /\ mem = mem0
    /\ \E kind \in {"diag", "half"} :
          /\ kind = "diag" => call.fn \in Triangular /\ call.diag = "Unit"
          /\ alt0 = IF call.fn \in {"dsyrk", "dsyr2k"}
                    THEN [mem0 EXCEPT !.C = Changed(mem0.C, kind)]
                    ELSE [mem0 EXCEPT !.A = Changed(mem0.A, kind)]
    /\ alt = alt0
    /\ hist = <<>>

NextTwin ==
    \/ Call_dtrmv
    \/ Call_dtrsv
    \/ Call_dtrmm
    \/ Call_dtrsm
    \/ Call_dsymv
    \/ Call_dsymm
    \/ Call_dsyrk
    \/ Call_dsyr2k

SpecTwin == InitTwin /\ [][NextTwin]_vars

(***************************************************************************)
(* Claims about what the routines read.                                    *)
(***************************************************************************)
\* The two runs' inputs are the same but for the matrix uplo governs.
SameButUploMat ==
    \A fld \in DOMAIN mem0 :
        fld # (IF call.fn \in {"dsyrk", "dsyr2k"} THEN "C" ELSE "A") => alt0[fld] = mem0[fld]

\* The two runs' inputs differ only in diagonal entries A(j,j).
DifferOnlyInDiagonal ==
    /\ SameButUploMat
    /\ \A p \in DOMAIN mem0.A :
          alt0.A[p] # mem0.A[p] => p % UploLd = p \div UploLd

\* The two runs' inputs differ only in the strictly opposite triangle of the
\* matrix uplo governs.
DifferOnlyInOppositeHalf ==
    /\ SameButUploMat
    /\ \A p \in DOMAIN UploMat(mem0) :
          UploMat(alt0)[p] # UploMat(mem0)[p] =>
              /\ p % UploLd < UploOrder
              /\ p % UploLd # p \div UploLd
              /\ ~InTri(p % UploLd, p \div UploLd)

\* C9: with diag = Unit, dtrmv, dtrsv, dtrmm and dtrsm never read the stored
\* diagonal of A: for every side, uplo and trans, two calls whose inputs
\* differ only in the diagonal entries A(j,j) produce identical outputs.
C9_UnitDiagonalNotRead ==
    hist # <<>> /\ call.fn \in Triangular /\ call.diag = "Unit" /\ DifferOnlyInDiagonal =>
        /\ alt.err = mem.err
        /\ call.fn \in {"dtrmv", "dtrsv"} => alt.x = mem.x
        /\ call.fn \in {"dtrmm", "dtrsm"} => alt.B = mem.B

\* dtrsv(Lower, Transpose, Unit, 3, ...) has returned in two runs whose
\* matrices differ in all three diagonal entries, and has changed x.
C9_Witness ==
    /\ hist = <<"dtrsv">>
    /\ call.uplo = "Lower" /\ call.trans = "Transpose" /\ call.diag = "Unit" /\ call.n = 3
    /\ DifferOnlyInDiagonal
    /\ \A j \in 0 .. 2 : alt0.A[j + j * call.ldA] # mem0.A[j + j * call.ldA]
    /\ mem.x # mem0.x

\* C10: the routines taking uplo read only the declared half of the matrix
\* it governs: for dsymv, dsymm, dtrmv, dtrsv, dtrmm, dtrsm (matrix A) and
\* dsyrk, dsyr2k (matrix C), two calls whose inputs differ only in the
\* strictly opposite triangle of that matrix produce identical values in
\* every output element the routine defines (x, y, B, C; the declared
\* triangle of C for dsyrk and dsyr2k).
C10_ReadsOnlyDeclaredHalf ==
    hist # <<>> /\ DifferOnlyInOppositeHalf =>
        /\ alt.err = mem.err
        /\ call.fn \in {"dtrmv", "dtrsv"} => alt.x = mem.x
        /\ call.fn \in {"dtrmm", "dtrsm"} => alt.B = mem.B
        /\ call.fn = "dsymv" => alt.y = mem.y
        /\ call.fn = "dsymm" => alt.C = mem.C
        /\ call.fn \in {"dsyrk", "dsyr2k"} =>
              \A i \in 0 .. call.n - 1, j \in 0 .. call.n - 1 :
                  InTri(i, j) => alt.C[i + j * call.ldC] = mem.C[i + j * call.ldC]

\* dsymm(Right, Upper, 2, 3, 2, ...) has returned in two runs whose matrices A
\* differ in all three entries of the strictly lower triangle, and has
\* changed C.
C10_Witness ==
    /\ hist = <<"dsymm">>
    /\ call.side = "Right" /\ call.uplo = "Upper" /\ call.m = 2 /\ call.n = 3
    /\ call.alpha = 2
    /\ DifferOnlyInOppositeHalf
    /\ \A i \in 0 .. 2, j \in 0 .. 2 :
          i > j => alt0.A[i + j * call.ldA] # mem0.A[i + j * call.ldA]
    /\ mem.C # mem0.C

(***************************************************************************)
(* Callers of the routines that take alpha or beta, run twice: on the      *)
(* buffers mem0 and on a second copy alt0 that differs from mem0 in every  *)
(* entry of the output buffer (y, C; kind "out") or in every entry of the  *)
(* operand buffers (A, B, x; kind "in"); every second differing entry is a *)
(* NaN.                                                                    *)
(***************************************************************************)
\* The buffers of a call, filled from seed s.
InOutMem(s) ==
    CASE call.fn = "dgemm" ->
            [A |-> Mat(s, call.ldA * (IF call.transA = "NoTranspose"
                                      THEN call.k ELSE call.m)),
             B |-> Mat(s + 1, call.ldB * (IF call.transB = "NoTranspose"
                                          THEN call.n ELSE call.k)),
             C |-> Mat(s + 2, call.ldC * call.n),
             err |-> ""]
      [] call.fn = "dgemv" ->
            [A |-> Mat(s, call.ldA * call.n),
             x |-> Mat(s + 1, VecLen(IF call.trans = "NoTranspose"
                                     THEN call.n ELSE call.m, call.incx)),
             y |-> Mat(s + 2, VecLen(IF call.trans = "NoTranspose"
                                     THEN call.m ELSE call.n, call.incy)),
             err |-> ""]
      [] OTHER -> TwinMem(s)

\* The buffer a routine writes its result to.
OutField ==
    CASE call.fn \in {"dgemv", "dsymv"} -> "y"
      [] call.fn \in {"dtrmm", "dtrsm"} -> "B"
      [] OTHER -> "C"

\* A buffer of other contents: NaN at the even offsets, another number at the
\* odd ones.
Stale(M) ==
    [p \in DOMAIN M |->
        IF call.fn \in Triangular
        THEN (IF p % 2 = 0 THEN <<0, 0>> ELSE radd(M[p], R(3)))
        ELSE (IF p % 2 = 0 THEN NaN ELSE M[p] + 3)]

InitInOut ==
    /\ call \in GemvCalls \cup GemmCalls \cup SymCalls \cup SyrkCalls \cup TrsmCalls
    /\ \E s \in 1 .. NSeeds : mem0 = InOutMem(s)
    /\ mem = mem0
    /\ \E kind \in {"out", "in"} :
          /\ kind = "out" => call.fn \notin Triangular
          /\ alt0 = [fld \in DOMAIN mem0 |->
                        IF \/ kind = "out" /\ fld = OutField
                           \/ kind = "in" /\ fld \in {"A", "B", "x"} /\ fld # OutField
                        THEN Stale(mem0[fld])
                        ELSE mem0[fld]]
    /\ alt = alt0
    /\ hist = <<>>

NextInOut ==
    \/ Call_dgemv
    \/ Call_dgemm
    \/ Call_dsymv
    \/ Call_dsymm
    \/ Call_dsyrk
    \/ Call_dsyr2k
    \/ Call_dtrmm
    \/ Call_dtrsm

SpecInOut == InitInOut /\ [][NextInOut]_vars

(***************************************************************************)
(* Claims about beta == 0, alpha == 0 and the degenerate dimensions.       *)
(***************************************************************************)
\* The two runs' inputs differ only in the output buffer, in all its entries.
DifferOnlyInOutput ==
    /\ \A fld \in DOMAIN mem0 : fld # OutField => alt0[fld] = mem0[fld]
    /\ \A p \in DOMAIN mem0[OutField] : alt0[OutField][p] # mem0[OutField][p]

\* Length of the vector y of a dgemv or dsymv call.
LenY ==
    IF call.fn = "dsymv" THEN call.n
    ELSE IF call.trans = "NoTranspose" THEN call.m ELSE call.n

\* The two runs end with the same result: the same error, the same logical
\* elements of y, the same C(i,j) (those of the declared triangle for dsyrk
\* and dsyr2k).
SameResult ==
    /\ alt.err = mem.err
    /\ call.fn \in {"dgemv", "dsymv"} =>
          \A i \in 0 .. LenY - 1 :
              Elem(alt.y, LenY, call.incy, i) = Elem(mem.y, LenY, call.incy, i)
    /\ call.fn \in {"dgemm", "dsymm"} =>
          \A i \in 0 .. call.m - 1, j \in 0 .. call.n - 1 :
              alt.C[i + j * call.ldC] = mem.C[i + j * call.ldC]
    /\ call.fn \in {"dsyrk", "dsyr2k"} =>
          \A i \in 0 .. call.n - 1, j \in 0 .. call.n - 1 :
              InTri(i, j) => alt.C[i + j * call.ldC] = mem.C[i + j * call.ldC]

BetaRoutines == {"dgemv", "dsymv", "dgemm", "dsymm", "dsyrk", "dsyr2k"}

\* dgemv called with m == 0 or n == 0 and a y of at least one element.
GemvDegenerate == call.fn = "dgemv" /\ (call.m = 0 \/ call.n = 0) /\ LenY > 0

\* C11 (as stated): with beta == 0, dgemv, dsymv, dgemm, dsymm, dsyrk and
\* dsyr2k never read the previous contents of the output: two calls whose
\* inputs differ only in the initial output contents produce identical
\* outputs, for every alpha and every transpose, side and uplo.
C11_BetaZeroIgnoresOutput ==
    hist # <<>> /\ call.fn \in BetaRoutines /\ call.beta = 0 /\ DifferOnlyInOutput =>
        SameResult

\* C11 (amended): the same for every call that is not dgemv's quick return
\* on m == 0 or n == 0; that quick return leaves y, whatever it holds, as it
\* is.
C11_BetaZeroIgnoresOutputUnlessQuickReturn ==
    hist # <<>> /\ call.fn \in BetaRoutines /\ call.beta = 0 /\ DifferOnlyInOutput =>
        IF GemvDegenerate
        THEN mem.y = mem0.y /\ alt.y = alt0.y
        ELSE SameResult

\* dgemv(NoTranspose, 2, 2, alpha = 2, ..., beta = 0, y, incy = -2) has
\* returned in two runs, the second with NaN in y at entry; both hold the
\* same two numbers in y.
C11_Witness ==
    /\ hist = <<"dgemv">>
    /\ call.trans = "NoTranspose" /\ call.m = 2 /\ call.n = 2
    /\ call.alpha = 2 /\ call.beta = 0 /\ call.incy = -2
    /\ DifferOnlyInOutput
    /\ alt0.y[0] = NaN /\ alt0.y[2] = NaN
    /\ alt.y[0] = mem.y[0] /\ alt.y[2] = mem.y[2]
    /\ alt.y[0] # NaN /\ mem.y # mem0.y

Level3 == {"dgemm", "dsymm", "dtrmm", "dtrsm", "dsyrk", "dsyr2k"}

\* A dimension of the result is zero: the result has no element.
EmptyResult ==
    IF call.fn \in {"dsyrk", "dsyr2k"} THEN call.n = 0 ELSE call.m = 0 \/ call.n = 0

\* The inner dimension k of the product is zero and the result has elements.
EmptyProduct == call.fn \in {"dgemm", "dsyrk", "dsyr2k"} /\ call.k = 0 /\ ~EmptyResult

\* (i, j) is an element of C the routine defines: of the m x n matrix for
\* dgemm and dsymm, of the declared triangle for dsyrk and dsyr2k.
InResult(i, j) ==
    IF call.fn \in {"dsyrk", "dsyr2k"}
    THEN i < call.n /\ j < call.n /\ InTri(i, j)
    ELSE i < call.m /\ j < call.n

\* C is beta times the C at entry (0 when beta == 0) on the elements the
\* routine defines, and as at entry elsewhere.
ScaledByBeta(b, b0) ==
    \A p \in DOMAIN b0.C :
        b.C[p] = IF InResult(p % call.ldC, p \div call.ldC)
                 THEN (IF call.beta = 0 THEN 0 ELSE fmul(call.beta, b0.C[p]))
                 ELSE b0.C[p]

\* C12 (as stated): every Level 3 routine is a no-op when a dimension is
\* degenerate; in particular dgemm, dsyrk and dsyr2k called with k == 0 (and
\* m, n > 0) leave every element of C unchanged, whatever alpha and beta.
C12_DegenerateIsNoOp ==
    hist # <<>> /\ call.fn \in Level3 /\ (EmptyResult \/ EmptyProduct) =>
        /\ mem.err = ""
        /\ \A fld \in {"A", "B", "C"} \cap DOMAIN mem0 : mem[fld] = mem0[fld]

\* C12 (amended): a call with m == 0 or n == 0 changes nothing; dgemm, dsyrk
\* and dsyr2k called with k == 0 (and m, n > 0) read neither A nor B and leave
\* C := beta*C (0 when beta == 0) on the elements they define, whatever
\* alpha; with beta == 1 that leaves C unchanged.
C12_DegenerateScalesByBeta ==
    hist # <<>> /\ call.fn \in Level3 =>
        /\ EmptyResult =>
              /\ mem.err = ""
              /\ \A fld \in {"A", "B", "C"} \cap DOMAIN mem0 : mem[fld] = mem0[fld]
        /\ EmptyProduct =>
              /\ mem.err = "" /\ alt.err = ""
              /\ mem.A = mem0.A
              /\ ScaledByBeta(mem, mem0)
              /\ ScaledByBeta(alt, alt0)
              /\ call.beta = 1 => mem.C = mem0.C

\* dgemm(NoTranspose, Transpose, m = 2, n = 2, k = 0, alpha = 2, ..., beta =
\* -1, C, ldC = 3) has returned with C negated.
C12_Witness ==
    /\ hist = <<"dgemm">>
    /\ call.transA = "NoTranspose" /\ call.transB = "Transpose"
    /\ call.m = 2 /\ call.n = 2 /\ call.k = 0 /\ call.alpha = 2 /\ call.beta = -1
    /\ call.ldC = 3
    /\ \A j \in 0 .. 1 : \A i \in 0 .. 1 : mem.C[i + j * 3] = -mem0.C[i + j * 3]
    /\ mem.C # mem0.C

\* The two runs' inputs differ only in the operands of the product (A, the
\* input B, x), in all their entries.
DifferOnlyInOperands ==
    /\ alt0[OutField] = mem0[OutField]
    /\ \A fld \in {"A", "B", "x"} \cap DOMAIN mem0 :
          fld # OutField => \A p \in DOMAIN mem0[fld] : alt0[fld][p] # mem0[fld][p]

\* Every element of the m x n matrix B is 0, the rest of the buffer as at
\* entry.
ZeroedB(b, b0) ==
    \A p \in DOMAIN b0.B :
        b.B[p] = IF p % call.ldB < call.m /\ p \div call.ldB < call.n THEN R(0) ELSE b0.B[p]

\* C13: with alpha == 0 and beta != 1, dgemm and dsymm set every C(i,j),
\* i < m, j < n, to beta*C_in(i,j) (exactly 0 when beta == 0), dsyrk and
\* dsyr2k do so on exactly the declared triangle of C, dtrmm and dtrsm set
\* every element of the m x n matrix B to 0; no element of A (or of the input
\* B of the product) is read: a run on other operands, NaN among them, gives
\* the same result.
C13_AlphaZeroScalesOnly ==
    /\ hist # <<>> /\ call.fn \in Level3 /\ call.alpha = 0
    /\ call.fn \notin {"dtrmm", "dtrsm"} => call.beta # 1
    => /\ mem.err = "" /\ alt.err = ""
       /\ mem.A = mem0.A /\ alt.A = alt0.A
       /\ IF call.fn \in {"dtrmm", "dtrsm"}
          THEN ZeroedB(mem, mem0) /\ ZeroedB(alt, alt0)
          ELSE ScaledByBeta(mem, mem0) /\ ScaledByBeta(alt, alt0)
       /\ DifferOnlyInOperands => alt[OutField] = mem[OutField]

\* dsyrk(Upper, NoTranspose, n = 2, k = 2, alpha = 0, A, 2, beta = 2, C, 2)
\* has returned in two runs whose A differ in every entry; both have doubled
\* the three elements of the upper triangle of C.
C13_Witness ==
    /\ hist = <<"dsyrk">>
    /\ call.uplo = "Upper" /\ call.trans = "NoTranspose" /\ call.n = 2 /\ call.k = 2
    /\ call.alpha = 0 /\ call.beta = 2 /\ call.ldC = 2
    /\ DifferOnlyInOperands
    /\ alt0.A[0] = NaN
    /\ mem.C # mem0.C
    /\ \A p \in {0, 2, 3} : mem.C[p] = 2 * mem0.C[p] /\ alt.C[p] = mem.C[p]
    /\ mem.C[1] = mem0.C[1]

(***************************************************************************)
(* Callers that pass any arguments: dimensions of ArgDims (negative ones   *)
(* too), strides of ArgIncs (zero too), flags that are no member of their  *)
(* enumeration, leading dimensions below the least allowed.  Every buffer  *)
(* holds ArgLen elements, enough for every access of a call.               *)
(***************************************************************************)
\* Length of each buffer of these callers.
ArgLen == 4

ArgDims == {-1, 0, 2}

ArgIncs == {-1, 0, 1, 2}

\* A flag of the enumeration S, or a value outside it.
ArgFlag(S) == S \cup {"Invalid"}

\* Leading dimensions: for at most two rows, 2 is allowed, 0 never is.
ArgLds == {0, 1, 2}

Call_dger ==
    /\ First("dger")
    /\ Run("dger", LAMBDA b : dger(call.m, call.n, call.alpha, call.incx, call.incy,
                                   call.ldA, b))

ArgCalls2 ==
    {[fn |-> "dgemv", trans |-> t, m |-> m, n |-> n, alpha |-> 2, beta |-> -1,
      ldA |-> la, incx |-> ix, incy |-> iy] :
        t \in ArgFlag(BLASTranspose), m \in ArgDims, n \in ArgDims, la \in ArgLds,
        ix \in ArgIncs, iy \in ArgIncs}
    \cup
    {[fn |-> "dger", m |-> m, n |-> n, alpha |-> 2, ldA |-> la, incx |-> ix, incy |-> iy] :
        m \in ArgDims, n \in ArgDims, la \in ArgLds, ix \in ArgIncs, iy \in ArgIncs}
    \cup
    {[fn |-> f, uplo |-> ul, n |-> n, alpha |-> 2, beta |-> -1,
      ldA |-> la, incx |-> ix, incy |-> iy] :
        f \in {"dsymv", "dsyr", "dsyr2"}, ul \in ArgFlag(BLASUplo), n \in ArgDims,
        la \in ArgLds, ix \in ArgIncs, iy \in ArgIncs}
    \cup
    {[fn |-> f, uplo |-> ul, trans |-> t, diag |-> dg, n |-> n, ldA |-> la, incx |-> ix] :
        f \in {"dtrmv", "dtrsv"}, ul \in ArgFlag(BLASUplo), t \in ArgFlag(BLASTranspose),
        dg \in ArgFlag(BLASDiag), n \in ArgDims, la \in ArgLds, ix \in ArgIncs}

ArgCalls3 ==
    {[fn |-> "dgemm", transA |-> ta, transB |-> tb, m |-> m, n |-> n, k |-> k,
      alpha |-> 2, beta |-> -1, ldA |-> la, ldB |-> lb, ldC |-> lc] :
        ta \in ArgFlag(BLASTranspose), tb \in ArgFlag(BLASTranspose),
        m \in ArgDims, n \in ArgDims, k \in ArgDims,
        la \in ArgLds, lb \in ArgLds, lc \in ArgLds}
    \cup
    {[fn |-> "dsymm", side |-> sd, uplo |-> ul, m |-> m, n |-> n,
      alpha |-> 2, beta |-> -1, ldA |-> la, ldB |-> lb, ldC |-> lc] :
        sd \in ArgFlag(BLASSide), ul \in ArgFlag(BLASUplo), m \in ArgDims, n \in ArgDims,
        la \in ArgLds, lb \in ArgLds, lc \in ArgLds}
    \cup
    {[fn |-> f, side |-> sd, uplo |-> ul, transA |-> ta, diag |-> dg, m |-> m, n |-> n,
      alpha |-> 2, ldA |-> la, ldB |-> lb] :
        f \in {"dtrmm", "dtrsm"}, sd \in ArgFlag(BLASSide), ul \in ArgFlag(BLASUplo),
        ta \in ArgFlag(BLASTranspose), dg \in ArgFlag(BLASDiag),
        m \in ArgDims, n \in ArgDims, la \in ArgLds, lb \in ArgLds}
    \cup
    {[fn |-> f, uplo |-> ul, trans |-> t, n |-> n, k |-> k,
      alpha |-> 2, beta |-> -1, ldA |-> la, ldB |-> lb, ldC |-> lc] :
        f \in {"dsyrk", "dsyr2k"}, ul \in ArgFlag(BLASUplo), t \in ArgFlag(BLASTranspose),
        n \in ArgDims, k \in ArgDims, la \in ArgLds, lb \in ArgLds, lc \in ArgLds}

\* The buffers of a call: fractions for the triangular routines.
ArgMem ==
    IF call.fn \in Triangular
    THEN [A |-> RMat(1, ArgLen), B |-> RMat(2, ArgLen), x |-> RMat(3, ArgLen), err |-> ""]
    ELSE [A |-> Mat(1, ArgLen), B |-> Mat(2, ArgLen), C |-> Mat(3, ArgLen),
          x |-> Mat(2, ArgLen), y |-> Mat(3, ArgLen), err |-> "", wr |-> {}]

InitArgs ==
    /\ call \in ArgCalls2 \cup ArgCalls3
    /\ mem0 = ArgMem
    /\ mem = mem0
    /\ NoTwin

NextArgs ==
    \/ Call_dgemv
    \/ Call_dsymv
    \/ Call_dtrmv
    \/ Call_dtrsv
    \/ Call_dger
    \/ Call_dsyr
    \/ Call_dsyr2
    \/ Call_dgemm
    \/ Call_dsymm
    \/ Call_dtrmm
    \/ Call_dtrsm
    \/ Call_dsyrk
    \/ Call_dsyr2k

SpecArgs == InitArgs /\ [][NextArgs]_vars

(***************************************************************************)
(* Claims about the checks of the arguments.                               *)
(***************************************************************************)
Level2 == {"dgemv", "dsymv", "dtrmv", "dtrsv", "dger", "dsyr", "dsyr2"}

\* The call has raised an error, and has changed no buffer before it did.
Raised == mem.err # "" /\ [mem EXCEPT !.err = ""] = mem0

\* A Level 2 call whose ldA is below max(1, number of rows of A) or one of
\* whose strides is 0.
BadLevel2Arg ==
    \/ call.ldA < Max(1, IF call.fn \in {"dgemv", "dger"} THEN call.m ELSE call.n)
    \/ call.incx = 0
    \/ call.fn \in {"dgemv", "dsymv", "dger", "dsyr2"} /\ call.incy = 0

\* C14: every Level 2 routine (dgemv, dsymv, dtrmv, dtrsv, dger, dsyr, dsyr2)
\* raises an error when ldA < max(1, number of rows of A) and when one of its
\* vector strides is 0; in particular dgemv with incx == 0 or incy == 0 raises
\* instead of computing a result.
C14_Level2RaisesOnBadLdOrStride ==
    hist # <<>> /\ call.fn \in Level2 /\ BadLevel2Arg => Raised

\* What does hold: the six routines other than dgemv raise, and dgemv raises
\* when its ldA is too small.
C14_AllButDgemvStrides ==
    /\ hist # <<>> /\ call.fn \in Level2 /\ BadLevel2Arg
    /\ call.fn = "dgemv" => call.ldA < Max(1, call.m)
    => Raised

\* What dgemv does with a zero stride (and an allowed ldA): it returns
\* without an error.
C14_DgemvZeroStrideReturns ==
    /\ hist # <<>> /\ call.fn = "dgemv" /\ (call.incx = 0 \/ call.incy = 0)
    /\ call.ldA >= Max(1, call.m)
    => mem.err = ""

\* A dimension of the call is negative, or one of its mode flags is no member
\* of its enumeration.
BadDimOrFlag ==
    \/ \E f \in {"m", "n", "k"} \cap DOMAIN call : call[f] < 0
    \/ \E f \in {"trans", "transA", "transB"} \cap DOMAIN call : call[f] \notin BLASTranspose
    \/ "side" \in DOMAIN call /\ call.side \notin BLASSide
    \/ "uplo" \in DOMAIN call /\ call.uplo \notin BLASUplo
    \/ "diag" \in DOMAIN call /\ call.diag \notin BLASDiag

\* A leading dimension of the call is below its required minimum.
BadLd ==
    CASE call.fn = "dgemv" -> call.ldA < Max(1, call.m)
      [] call.fn = "dgemm" ->
            \/ call.ldA < Max(1, IF call.transA = "NoTranspose" THEN call.m ELSE call.k)
            \/ call.ldB < Max(1, IF call.transB = "NoTranspose" THEN call.k ELSE call.n)
            \/ call.ldC < Max(1, call.m)
      [] call.fn = "dsymm" ->
            \/ call.ldA < Max(1, IF call.side = "Left" THEN call.m ELSE call.n)
            \/ call.ldB < Max(1, call.m)
            \/ call.ldC < Max(1, call.m)
      [] call.fn \in {"dtrmm", "dtrsm"} ->
            \/ call.ldA < Max(1, IF call.side = "Left" THEN call.m ELSE call.n)
            \/ call.ldB < Max(1, call.m)
      [] call.fn \in {"dsyrk", "dsyr2k"} ->
            \/ call.ldA < Max(1, IF call.trans = "NoTranspose" THEN call.n ELSE call.k)
            \/ call.fn = "dsyr2k" /\
                  call.ldB < Max(1, IF call.trans = "NoTranspose" THEN call.n ELSE call.k)
            \/ call.ldC < Max(1, call.n)
      [] OTHER -> FALSE

\* C15: every Level 3 routine (dgemm, dsymm, dtrmm, dtrsm, dsyrk, dsyr2k) and
\* dgemv raise an error when a dimension argument is negative, when a leading
\* dimension is smaller than its required minimum, or when a mode flag is not
\* a member of its enumeration.
C15_RaisesOnBadArgument ==
    hist = <<call.fn>> /\ call.fn \in Level3 \cup {"dgemv"} /\ (BadDimOrFlag \/ BadLd) =>
        Raised

\* What does hold: dgemm, dsymm, dtrmm, dsyrk and dsyr2k raise on each of
\* these, and dgemv raises on a small ldA.
C15_AllButDtrsmAndDgemv ==
    /\ hist = <<call.fn>> /\ (BadDimOrFlag \/ BadLd)
    /\ \/ call.fn \in Level3 \ {"dtrsm"}
       \/ call.fn = "dgemv" /\ BadLd
    => Raised

\* What dtrsm does: it never raises an error, whatever its arguments.
C15_DtrsmNeverRaises == hist = <<"dtrsm">> => mem.err = ""

(***************************************************************************)
(* Callers of every kernel with a zero length (n == 0; m == 0 or n == 0)   *)
(* or a zero alpha.                                                        *)
(***************************************************************************)
ZeroLength == ("m" \in DOMAIN call /\ call.m = 0) \/ call.n = 0

ZeroAlpha == "alpha" \in DOMAIN call /\ call.alpha = 0

InitQuick ==
    /\ \/ InitL1
       \/ InitGemm
       \/ InitGemv
       \/ InitTrsm
       \/ InitSyr
       \/ InitTwin /\ call.fn \in {"dtrmv", "dtrsv", "dsymv", "dsymm"}
       \/ /\ call \in {[fn |-> "dger", m |-> m, n |-> n, alpha |-> al, incx |-> ix,
                        incy |-> iy, ldA |-> Max(1, m) + pad] :
                          m \in 0 .. MaxDim, n \in 0 .. MaxDim, al \in Scalars,
                          ix \in Strides, iy \in Strides, pad \in Pads}
          /\ \E s \in 1 .. NSeeds :
                mem0 = [x |-> Mat(s + 1, VecLen(call.m, call.incx)),
                        y |-> Mat(s + 2, VecLen(call.n, call.incy)),
                        A |-> Mat(s, call.ldA * call.n),
                        err |-> ""]
          /\ mem = mem0
          /\ NoTwin
    /\ ZeroLength \/ ZeroAlpha

NextQuick ==
    \/ Call_daxpy
    \/ Call_dscal
    \/ Call_dcopy
    \/ Call_dswap
    \/ Call_ddot
    \/ Call_dasum
    \/ Call_idamax
    \/ Call_drot
    \/ Call_dgemv
    \/ Call_dsymv
    \/ Call_dtrmv
    \/ Call_dtrsv
    \/ Call_dger
    \/ Call_dsyr
    \/ Call_dsyr2
    \/ Call_dgemm
    \/ Call_dsymm
    \/ Call_dtrmm
    \/ Call_dtrsm
    \/ Call_dsyrk
    \/ Call_dsyr2k

SpecQuick == InitQuick /\ [][NextQuick]_vars

(***************************************************************************)
(* Claims about the quick returns.                                         *)
(***************************************************************************)
\* No element of any buffer is modified, and no error is raised.
NoEffect ==
    /\ \A fld \in {"x", "y", "A", "B", "C"} \cap DOMAIN mem0 : mem[fld] = mem0[fld]
    /\ "err" \in DOMAIN mem => mem.err = ""

MaxPair == 2

PairStrides == {<<1, 1>>, <<-1, 2>>}

PairCalls ==
    {[fn |-> "pair",
      c |-> <<[fn |-> "daxpy", n |-> n1, alpha |-> al1, incx |-> s1[1], incy |-> s1[2]],
              [fn |-> "dgemv", trans |-> t, m |-> m, n |-> n, alpha |-> 2, beta |-> be,
               ldA |-> Max(1, m), incx |-> s2[1], incy |-> s2[2]]>>] :
        n1 \in 0 .. MaxPair, al1 \in {-1, 2}, s1 \in PairStrides,
        t \in {"NoTranspose", "Transpose"}, m \in 1 .. MaxPair, n \in 1 .. MaxPair,
        be \in {0, -1}, s2 \in PairStrides}

\* Locals of a function body (let ix, const temp) belong to the call:
\* call p keeps its register and its temp in a slot of its own.
Local_shared(p) == 1

Local(p) == p

\* The element statements of daxpy, after its two early returns.
DaxpyProg(c) ==
    IF c.n <= 0 \/ c.alpha = 0 THEN <<>>
    ELSE [q \in 1 .. c.n |->
            [op |-> "axpy", x |-> StartOff(c.n, c.incx) + (q - 1) * c.incx,
                            y |-> StartOff(c.n, c.incy) + (q - 1) * c.incy]]

\* The element statements of dgemv: y := beta*y, then one column (or one
\* row of A^T) at a time.
GemvProg(c) ==
    IF c.ldA < Max(1, c.m) THEN <<>>
    ELSE IF c.m = 0 \/ c.n = 0 \/ (c.alpha = 0 /\ c.beta = 1) THEN <<>>
    ELSE LET lenx == IF c.trans = "NoTranspose" THEN c.n ELSE c.m
             leny == IF c.trans = "NoTranspose" THEN c.m ELSE c.n
             kx == StartK(lenx, c.incx)
             ky == StartK(leny, c.incy)
             scale == IF c.beta # 1
                      THEN [q \in 1 .. leny |-> [op |-> "scale", y |-> ky + (q - 1) * c.incy]]
                      ELSE <<>>
             colN == [q \in 1 .. c.n * (c.m + 1) |->
                        LET j == (q - 1) \div (c.m + 1)
                            r == (q - 1) % (c.m + 1)
                        IN  IF r = 0 THEN [op |-> "temp", x |-> kx + j * c.incx]
                            ELSE [op |-> "update", y |-> ky + (r - 1) * c.incy,
                                                   a |-> (r - 1) + j * c.ldA]]
             colT == [q \in 1 .. c.n * (c.m + 2) |->
                        LET j == (q - 1) \div (c.m + 2)
                            r == (q - 1) % (c.m + 2)
                        IN  IF r = 0 THEN [op |-> "zero"]
                            ELSE IF r <= c.m
                            THEN [op |-> "dot", a |-> (r - 1) + j * c.ldA,
                                                x |-> kx + (r - 1) * c.incx]
                            ELSE [op |-> "acc", y |-> ky + j * c.incy]]
         IN  IF c.alpha = 0 THEN scale
             ELSE IF c.trans = "NoTranspose" THEN scale \o colN
             ELSE scale \o colT

\* The value of a statement's right-hand side, read from the call's own
\* buffers b and its own locals l.
StmtValue(st, c, b, l) ==
    CASE st.op = "axpy"   -> fadd(b.y[st.y], fmul(c.alpha, b.x[st.x]))
      [] st.op = "scale"  -> IF c.beta = 0 THEN 0 ELSE fmul(c.beta, b.y[st.y])
      [] st.op = "temp"   -> fmul(c.alpha, b.x[st.x])
      [] st.op = "update" -> fadd(b.y[st.y], fmul(l.temp, b.A[st.a]))
      [] st.op = "zero"   -> 0
      [] st.op = "dot"    -> fadd(l.temp, fmul(b.A[st.a], b.x[st.x]))
      [] st.op = "acc"    -> fadd(b.y[st.y], fmul(c.alpha, l.temp))

PairProg(p) == IF p = 1 THEN DaxpyProg(call.c[1]) ELSE GemvProg(call.c[2])

PairDone(p) == mem.pc[p] = 2 * Len(PairProg(p))

\* One step of call p: evaluate the current statement, or store its value.
Step(p) ==
    /\ call.fn = "pair"
    /\ ~PairDone(p)
    /\ LET k  == mem.pc[p]
           st == PairProg(p)[(k \div 2) + 1]
           sl == Local(p)
           m1 == IF k % 2 = 0
                 THEN [mem EXCEPT !.loc[sl].reg =
                                      StmtValue(st, call.c[p], mem.b[p], mem.loc[sl]),
                                  !.pc[p] = k + 1]
                 ELSE IF st.op \in {"temp", "zero", "dot"}
                 THEN [mem EXCEPT !.loc[sl].temp = mem.loc[sl].reg, !.pc[p] = k + 1]
                 ELSE [mem EXCEPT !.b[p].y[st.y] = mem.loc[sl].reg, !.pc[p] = k + 1]
       IN  mem' = [m1 EXCEPT !.mixed = @ \/ (m1.pc[1] % 2 = 1 /\ m1.pc[2] % 2 = 1)]
    /\ UNCHANGED <<call, mem0, alt0, alt, hist>>

InitPair ==
    /\ call \in PairCalls
    /\ LET c1 == call.c[1]
           c2 == call.c[2]
           lenx == IF c2.trans = "NoTranspose" THEN c2.n ELSE c2.m
           leny == IF c2.trans = "NoTranspose" THEN c2.m ELSE c2.n
       IN  mem0 = <<[x |-> Vec(2, VecLen(c1.n, c1.incx)),
                     y |-> Vec(4, VecLen(c1.n, c1.incy))],
                    [A |-> Mat(1, c2.ldA * c2.n),
                     x |-> Mat(2, VecLen(lenx, c2.incx)),
                     y |-> Mat(3, VecLen(leny, c2.incy)),
                     err |-> ""]>>
    /\ mem = [b |-> mem0, pc |-> <<0, 0>>,
              loc |-> [s \in {1, 2} |-> [reg |-> 0, temp |-> 0]],
              mixed |-> FALSE]
    /\ alt0 = mem0
    /\ alt = LET c1 == call.c[1]
                 c2 == call.c[2]
                 r1 == daxpy(c1.n, c1.alpha, mem0[1].x, c1.incx, mem0[1].y, c1.incy)
             IN  <<[x |-> r1.x, y |-> r1.y],
                   dgemv(c2.trans, c2.m, c2.n, c2.alpha, c2.ldA, c2.incx, c2.beta,
                         c2.incy, mem0[2])>>
    /\ hist = <<>>

NextPair == Step(1) \/ Step(2)

SpecPair == InitPair /\ [][NextPair]_vars

(***************************************************************************)
(* Claims about concurrent calls                                           *)
(***************************************************************************)

\* C18: when a daxpy call and a dgemv call on disjoint buffers have both run
\* to completion with their element-level evaluations and stores interleaved
\* in any order, every buffer holds exactly what running daxpy and then
\* dgemv, one after the other, leaves in it.
C18_InterleavingEqualsSequential ==
    (call.fn = "pair" /\ PairDone(1) /\ PairDone(2)) => mem.b = alt

\* Both calls have finished, each changed its y, and the run was not one
\* call after the other: at some moment both calls were between an
\* evaluation and its store.
C18_Witness ==
    /\ call.fn = "pair" /\ PairDone(1) /\ PairDone(2)
    /\ mem.b[1].y # mem0[1].y
    /\ mem.b[2].y # mem0[2].y
    /\ mem.mixed

(***************************************************************************)
(* Claims about dtrsv                                                      *)
(***************************************************************************)
\* Element (i, j) of op(A) for dtrsv, whose transposition flag is trans.
OpTriV(A, i, j) == IF call.trans = "NoTranspose" THEN TriElem(A, i, j) ELSE TriElem(A, j, i)

\* Logical element i of the strided vector in buffer x.
XElem(x, i) == x[Off(call.n, call.incx, i)]

\* The buffers of a unit-stride call on the same logical vector.
UnitStrideMem == [mem0 EXCEPT !.x = [i \in 0 .. call.n - 1 |-> XElem(mem0.x, i)]]

\* The x left by the same call when element k of the right-hand side is NaN.
SolvedWithNaN(k) ==
    dtrsv(call.uplo, call.trans, call.diag, call.n, call.ldA, call.incx,
          [mem0 EXCEPT !.x[Off(call.n, call.incx, k)] = <<0, 0>>]).x

BackwardCase ==
    \/ call.uplo = "Upper" /\ call.trans = "NoTranspose"
    \/ call.uplo = "Lower" /\ call.trans # "NoTranspose"

\* C20: dtrsv overwrites x with the solution of op(A)*x = b, b being x at
\* entry, for every uplo, trans and diag; the unknowns are determined last
\* to first (backward substitution) for Upper+NoTranspose and
\* Lower+Transpose and first to last (forward substitution) otherwise, so
\* that a NaN in right-hand side element k reaches exactly the unknowns
\* solved from k on; and for every non-zero incx the result equals, element
\* by element, that of the unit-stride call on the same logical vector,
\* elements off the stride keeping their values.
C20_DtrsvSolves ==
    Returned("dtrsv") =>
        /\ mem.err = ""
        /\ \A i \in 0 .. call.n - 1 :
              RSumTo(call.n, [l \in 0 .. call.n - 1 |->
                                rmul(OpTriV(mem0.A, i, l), XElem(mem.x, l))])
                  = XElem(mem0.x, i)
        /\ \A k \in 0 .. call.n - 1, l \in 0 .. call.n - 1 :
              (XElem(SolvedWithNaN(k), l) = <<0, 0>>)
                  <=> (IF BackwardCase THEN l <= k ELSE l >= k)
        /\ LET unit == dtrsv(call.uplo, call.trans, call.diag, call.n, call.ldA, 1,
                             UnitStrideMem).x
           IN  \A i \in 0 .. call.n - 1 : XElem(mem.x, i) = unit[i]
        /\ \A p \in DOMAIN mem.x :
              (\A i \in 0 .. call.n - 1 : p # Off(call.n, call.incx, i)) => mem.x[p] = mem0.x[p]
        /\ mem.A = mem0.A

\* dtrsv(Upper, NoTranspose, NonUnit, 3, ...) has returned with incx = -2,
\* from a right-hand side whose last element is not zero, and has changed
\* the last and the first unknown.
C20_Witness ==
    /\ Returned("dtrsv")
    /\ call.uplo = "Upper" /\ call.trans = "NoTranspose" /\ call.diag = "NonUnit"
    /\ call.n = 3 /\ call.incx = -2
    /\ XElem(mem0.x, 2) # R(0)
    /\ XElem(mem.x, 2) # XElem(mem0.x, 2)
    /\ XElem(mem.x, 0) # XElem(mem0.x, 0)

(***************************************************************************)
(* Claims about dtrmv                                                      *)
(***************************************************************************)
\* C21: dtrmv overwrites x in place with op(A)*x_in for every uplo, trans
\* and diag: each component of the result is the sum over l of
\* op(A)(i,l) * x_in(l), taken over the values x had at entry, so no
\* component is read after it was overwritten while still needed; for every
\* non-zero incx the result equals, element by element, that of the
\* unit-stride call on the same logical vector, and elements off the stride
\* and A keep their values.
C21_DtrmvMultiplies ==
    Returned("dtrmv") =>
        /\ mem.err = ""
        /\ \A i \in 0 .. call.n - 1 :
              XElem(mem.x, i)
                  = RSumTo(call.n, [l \in 0 .. call.n - 1 |->
                                      rmul(OpTriV(mem0.A, i, l), XElem(mem0.x, l))])
        /\ LET unit == dtrmv(call.uplo, call.trans, call.diag, call.n, call.ldA, 1,
                             UnitStrideMem).x
           IN  \A i \in 0 .. call.n - 1 : XElem(mem.x, i) = unit[i]
        /\ \A p \in DOMAIN mem.x :
              (\A i \in 0 .. call.n - 1 : p # Off(call.n, call.incx, i)) => mem.x[p] = mem0.x[p]
        /\ mem.A = mem0.A

\* dtrmv(Lower, NoTranspose, NonUnit, 3, ...) has returned with incx = -2,
\* from a vector whose first element is not zero, and has changed the first
\* and the last component.
C21_Witness ==
    /\ Returned("dtrmv")
    /\ call.uplo = "Lower" /\ call.trans = "NoTranspose" /\ call.diag = "NonUnit"
    /\ call.n = 3 /\ call.incx = -2
    /\ XElem(mem0.x, 0) # R(0)
    /\ XElem(mem.x, 0) # XElem(mem0.x, 0)
    /\ XElem(mem.x, 2) # XElem(mem0.x, 2)

(***************************************************************************)
(* Claims about dtrmm                                                      *)
(***************************************************************************)
\* X = alpha*op(A)*B0 (Left) or alpha*B0*op(A) (Right) on the m x n matrix,
\* A being the triangular matrix that uplo and diag declare.
Multiplies(A, X, B0) ==
    \A i \in 0 .. call.m - 1, j \in 0 .. call.n - 1 :
        X[i + j * call.ldB]
            = rmul(R(call.alpha),
                   IF call.side = "Left"
                   THEN RSumTo(call.m, [l \in 0 .. call.m - 1 |->
                            rmul(OpTri(A, i, l), B0[l + j * call.ldB])])
                   ELSE RSumTo(call.n, [l \in 0 .. call.n - 1 |->
                            rmul(B0[i + l * call.ldB], OpTri(A, l, j))]))

\* C22: dtrmm overwrites B with alpha*op(A)*B_in (Left, A of order m) or
\* alpha*B_in*op(A) (Right, A of order n) for every side, uplo, transA and
\* diag, A being read as triangular with the declared half and, for Unit,
\* a diagonal of 1; A and the padding rows of B keep their values.
C22_TrmmMultiplies ==
    hist = <<"dtrmm">> =>
        /\ mem.err = ""
        /\ Multiplies(mem0.A, mem.B, mem0.B)
        /\ mem.A = mem0.A
        /\ \A p \in DOMAIN mem.B : p % call.ldB >= call.m => mem.B[p] = mem0.B[p]

\* dtrmm(Right, Upper, Transpose, Unit, 2, 3, alpha = 2, ...) has returned
\* and has changed B.
C22_Witness ==
    /\ hist = <<"dtrmm">>
    /\ call.side = "Right" /\ call.uplo = "Upper" /\ call.transA = "Transpose"
    /\ call.diag = "Unit" /\ call.m = 2 /\ call.n = 3 /\ call.alpha = 2
    /\ mem.B # mem0.B

(***************************************************************************)
(* Claims about dsymv and dsymm                                            *)
(***************************************************************************)
\* Element (i, l) of the symmetric matrix whose declared triangle is the
\* one stored in A.
SymElem(A, i, l) ==
    IF i = l \/ ((call.uplo = "Upper") = (i < l))
    THEN A[i + l * call.ldA]
    ELSE A[l + i * call.ldA]

\* A with both triangles filled from the declared one.
Symmetrised(A) ==
    [p \in DOMAIN A |->
        IF p % call.ldA < UploOrder /\ p \div call.ldA < UploOrder
        THEN SymElem(A, p % call.ldA, p \div call.ldA)
        ELSE A[p]]

\* The call's routine run on buffers b with the given uplo and strides.
SymRun(uplo, incx, incy, b) ==
    IF call.fn = "dsymv"
    THEN dsymv(uplo, call.n, call.alpha, call.ldA, incx, call.beta, incy, b)
    ELSE dsymm(call.side, uplo, call.m, call.n, call.alpha, call.ldA, call.ldB,
               call.beta, call.ldC, b)

\* C23: dsymv sets y := alpha*S*x + beta*y_in and dsymm sets
\* C := alpha*S*B + beta*C_in (Left) or C := alpha*B*S + beta*C_in (Right),
\* S being the full symmetric matrix whose declared triangle is the stored
\* triangle of A; run on a symmetric A, the Upper and the Lower call give
\* the same result; and dsymv gives, element by element, the result of the
\* unit-stride call on the same logical vectors for every non-zero incx and
\* incy.
C23_SymmetricProduct ==
    /\ Returned("dsymv") =>
          /\ mem.err = ""
          /\ \A i \in 0 .. call.n - 1 :
                Elem(mem.y, call.n, call.incy, i)
                    = call.alpha
                        * SumTo(call.n, [l \in 0 .. call.n - 1 |->
                              SymElem(mem0.A, i, l) * Elem(mem0.x, call.n, call.incx, l)])
                      + call.beta * Elem(mem0.y, call.n, call.incy, i)
          /\ LET unit == SymRun(call.uplo, 1, 1,
                             [mem0 EXCEPT !.x = [i \in 0 .. call.n - 1 |->
                                                    Elem(mem0.x, call.n, call.incx, i)],
                                          !.y = [i \in 0 .. call.n - 1 |->
                                                    Elem(mem0.y, call.n, call.incy, i)]]).y
             IN  \A i \in 0 .. call.n - 1 : Elem(mem.y, call.n, call.incy, i) = unit[i]
          /\ LET sym == [mem0 EXCEPT !.A = Symmetrised(mem0.A)]
             IN  /\ SymRun("Upper", call.incx, call.incy, sym).y = mem.y
                 /\ SymRun("Lower", call.incx, call.incy, sym).y = mem.y
    /\ Returned("dsymm") =>
          /\ mem.err = ""
          /\ \A i \in 0 .. call.m - 1, j \in 0 .. call.n - 1 :
                mem.C[i + j * call.ldC]
                    = call.alpha
                        * (IF call.side = "Left"
                           THEN SumTo(call.m, [l \in 0 .. call.m - 1 |->
                                    SymElem(mem0.A, i, l) * mem0.B[l + j * call.ldB]])
                           ELSE SumTo(call.n, [l \in 0 .. call.n - 1 |->
                                    mem0.B[i + l * call.ldB] * SymElem(mem0.A, l, j)]))
                      + call.beta * mem0.C[i + j * call.ldC]
          /\ LET sym == [mem0 EXCEPT !.A = Symmetrised(mem0.A)]
             IN  /\ SymRun("Upper", 1, 1, sym).C = mem.C
                 /\ SymRun("Lower", 1, 1, sym).C = mem.C

\* dsymm(Right, Lower, 2, 3, alpha = 2, beta = -1) has returned from a
\* matrix A whose two triangles differ, and has changed C.
C23_Witness ==
    /\ Returned("dsymm")
    /\ call.side = "Right" /\ call.uplo = "Lower" /\ call.m = 2 /\ call.n = 3
    /\ call.alpha = 2 /\ call.beta = -1
    /\ Symmetrised(mem0.A) # mem0.A
    /\ mem.C # mem0.C

(***************************************************************************)
(* Claims about dsyrk and dsyr2k                                           *)
(***************************************************************************)
\* C24: on the declared triangle of C, dsyrk sets
\* C(i,j) = alpha * sum_{l<k} op(A)(i,l)*op(A)(j,l) + beta*C_in(i,j) and
\* dsyr2k sets C(i,j) = alpha * sum_{l<k} (op(A)(i,l)*op(B)(j,l)
\* + op(B)(i,l)*op(A)(j,l)) + beta*C_in(i,j), where op(M)(i,l) is M(i,l) for
\* NoTranspose and M(l,i) for Transpose.
C24_RankKUpdate ==
    /\ Returned("dsyrk") =>
          /\ mem.err = ""
          /\ \A i \in 0 .. call.n - 1, j \in 0 .. call.n - 1 :
                InTri(i, j) =>
                    mem.C[i + j * call.ldC]
                        = call.alpha
                            * SumTo(call.k, [l \in 0 .. call.k - 1 |->
                                  OpElem(call.trans, mem0.A, call.ldA, i, l)
                                    * OpElem(call.trans, mem0.A, call.ldA, j, l)])
                          + call.beta * mem0.C[i + j * call.ldC]
    /\ Returned("dsyr2k") =>
          /\ mem.err = ""
          /\ \A i \in 0 .. call.n - 1, j \in 0 .. call.n - 1 :
                InTri(i, j) =>
                    mem.C[i + j * call.ldC]
                        = call.alpha
                            * SumTo(call.k, [l \in 0 .. call.k - 1 |->
                                  OpElem(call.trans, mem0.A, call.ldA, i, l)
                                    * OpElem(call.trans, mem0.B, call.ldB, j, l)
                                  + OpElem(call.trans, mem0.B, call.ldB, i, l)
                                    * OpElem(call.trans, mem0.A, call.ldA, j, l)])
                          + call.beta * mem0.C[i + j * call.ldC]

\* dsyr2k(Lower, Transpose, n = 2, k = 2, alpha = 2, beta = -1) has returned
\* and has changed every element of the lower triangle of C from -C_in.
C24_Witness ==
    /\ Returned("dsyr2k")
    /\ call.uplo = "Lower" /\ call.trans = "Transpose" /\ call.n = 2 /\ call.k = 2
    /\ call.alpha = 2 /\ call.beta = -1
    /\ \A i \in 0 .. 1, j \in 0 .. 1 :
          i >= j => mem.C[i + j * call.ldC] # -mem0.C[i + j * call.ldC]

(***************************************************************************)
(* drotg and dnrm2, over exact fractions.                                  *)
(*                                                                         *)
(* Math.sqrt is rounded down to a multiple of 1/16 of the denominator, so  *)
(* the root of a perfect square is exact.  The quotients of drotg flush to *)
(* zero below 1/Tiny, as a quotient below the smallest double does.  dnrm2 *)
(* is taken one element at a time: mem.i elements have been processed,     *)
(* mem.ix is the offset of the next one, mem.scale and mem.ssq are the two *)
(* locals of the loop.                                                     *)
(***************************************************************************)
\* The quotients of drotg with magnitude below 1/Tiny are 0.
Tiny == 8

\* Largest vector length of a dnrm2 call.
MaxNrm == 3

RECURSIVE ISqrtIn(_, _, _)
ISqrtIn(v, lo, hi) ==
    IF lo >= hi THEN lo
    ELSE LET mid == (lo + hi + 1) \div 2
         IN  IF mid * mid <= v THEN ISqrtIn(v, mid, hi) ELSE ISqrtIn(v, lo, mid - 1)

\* Math.sqrt of a fraction that is not negative.
RSqrt(a) == IF a[2] = 0 THEN a ELSE Frac(ISqrtIn(a[1] * a[2] * 256, 0, 46340), a[2] * 16)

RAbs(a) == <<Abs(a[1]), a[2]>>

RLess(a, b) == a[1] * b[2] < b[1] * a[2]

\* a / b in drotg: 0 when the quotient is too small to be represented.
RotgDiv(a, b) ==
    LET q == rdiv(a, b)
    IN  IF q[2] # 0 /\ q[1] # 0 /\ Abs(q[1]) * Tiny < q[2] THEN R(0) ELSE q

\* drotg with sigma taken from a on a tie as well.
drotg_tie_a(a, b) ==
    LET anorm == RAbs(a)
        bnorm == RAbs(b)
    IN  IF bnorm = R(0) THEN [c |-> R(1), s |-> R(0), r |-> a, z |-> R(0)]
        ELSE IF anorm = R(0) THEN [c |-> R(0), s |-> R(1), r |-> b, z |-> R(1)]
        ELSE LET scale == IF RLess(anorm, bnorm) THEN bnorm ELSE anorm
                 sigma == IF ~RLess(anorm, bnorm)
                          THEN (IF a[1] < 0 THEN R(-1) ELSE R(1))
                          ELSE (IF b[1] < 0 THEN R(-1) ELSE R(1))
                 as == RotgDiv(a, scale)
                 bs == RotgDiv(b, scale)
                 r == rmul(rmul(sigma, scale), RSqrt(radd(rmul(as, as), rmul(bs, bs))))
                 c == RotgDiv(a, r)
                 s == RotgDiv(b, r)
                 z == IF RLess(bnorm, anorm) THEN s
                      ELSE IF c # R(0) THEN RotgDiv(R(1), c)
                      ELSE R(1)
             IN  [c |-> c, s |-> s, r |-> r, z |-> z]

drotg(a, b) ==
    LET anorm == RAbs(a)
        bnorm == RAbs(b)
    IN  IF bnorm = R(0) THEN [c |-> R(1), s |-> R(0), r |-> a, z |-> R(0)]
        ELSE IF anorm = R(0) THEN [c |-> R(0), s |-> R(1), r |-> b, z |-> R(1)]
        ELSE LET scale == IF RLess(anorm, bnorm) THEN bnorm ELSE anorm
                 sigma == IF RLess(bnorm, anorm)
                          THEN (IF a[1] < 0 THEN R(-1) ELSE R(1))
                          ELSE (IF b[1] < 0 THEN R(-1) ELSE R(1))
                 as == RotgDiv(a, scale)
                 bs == RotgDiv(b, scale)
                 r == rmul(rmul(sigma, scale), RSqrt(radd(rmul(as, as), rmul(bs, bs))))
                 c == RotgDiv(a, r)
                 s == RotgDiv(b, r)
                 z == IF RLess(bnorm, anorm) THEN s
                      ELSE IF c # R(0) THEN RotgDiv(R(1), c)
                      ELSE R(1)
             IN  [c |-> c, s |-> s, r |-> r, z |-> z]

\* The loop body of dnrm2 without the rescaling of ssq by temp*temp.
dnrm2_at_unscaled(scale, ssq, xi) ==
    LET absxi == RAbs(xi)
    IN  IF absxi # R(0)
        THEN IF RLess(scale, absxi)
             THEN [scale |-> absxi, ssq |-> radd(R(1), ssq)]
             ELSE LET temp == rdiv(absxi, scale)
                  IN  [scale |-> scale, ssq |-> radd(ssq, rmul(temp, temp))]
        ELSE [scale |-> scale, ssq |-> ssq]

\* The loop body of dnrm2 on element xi: the new scale and ssq.
dnrm2_at(scale, ssq, xi) ==
    LET absxi == RAbs(xi)
    IN  IF absxi # R(0)
        THEN IF RLess(scale, absxi)
             THEN LET temp == rdiv(scale, absxi)
                  IN  [scale |-> absxi, ssq |-> radd(R(1), rmul(rmul(ssq, temp), temp))]
             ELSE LET temp == rdiv(absxi, scale)
                  IN  [scale |-> scale, ssq |-> radd(ssq, rmul(temp, temp))]
        ELSE [scale |-> scale, ssq |-> ssq]

RotgVals == {-12, -4, -3, -1, 0, 1, 3, 4, 12}

NrmVals == {0, 3, -4, 12}

ScalarCalls ==
    {[fn |-> "drotg", a |-> a, b |-> b] : a \in RotgVals, b \in RotgVals}
    \cup
    {[fn |-> "dnrm2", n |-> n, incx |-> ix] : n \in -1 .. MaxNrm, ix \in Strides}

InitScalar ==
    /\ call \in ScalarCalls
    /\ IF call.fn = "drotg"
       THEN /\ mem0 = [x |-> <<>>]
            /\ mem = [x |-> <<>>, ret |-> R(0)]
       ELSE /\ \E v \in [1 .. Max(call.n, 0) -> NrmVals] :
                  mem0 = [x |-> [p \in DOMAIN Strided(v, call.incx) |->
                                    R(Strided(v, call.incx)[p])]]
            /\ mem = [x |-> mem0.x, scale |-> R(0), ssq |-> R(1), i |-> 0,
                      ix |-> IF call.incx < 0 THEN (-call.n + 1) * call.incx ELSE 0,
                      ret |-> R(0)]
    /\ NoTwin

Call_drotg ==
    /\ First("drotg")
    /\ mem' = [mem EXCEPT !.ret = drotg(R(call.a), R(call.b))]
    /\ alt' = mem'
    /\ hist' = <<"drotg">>
    /\ UNCHANGED <<call, mem0, alt0>>

\* One iteration of the loop of dnrm2, on x[i] (incx == 1) or x[ix].
Step_dnrm2 ==
    /\ First("dnrm2")
    /\ call.n > 0 /\ mem.i < call.n
    /\ LET xi == IF call.incx = 1 THEN mem.x[mem.i] ELSE mem.x[mem.ix]
           st == dnrm2_at(mem.scale, mem.ssq, xi)
       IN  mem' = [mem EXCEPT !.scale = st.scale, !.ssq = st.ssq, !.i = @ + 1,
                              !.ix = @ + call.incx]
    /\ alt' = mem'
    /\ UNCHANGED <<call, mem0, alt0, hist>>

\* The early return of dnrm2 for n <= 0, or its return after the loop.
Return_dnrm2 ==
    /\ First("dnrm2")
    /\ call.n <= 0 \/ mem.i = call.n
    /\ mem' = [mem EXCEPT !.ret = IF call.n <= 0 THEN R(0)
                                   ELSE rmul(mem.scale, RSqrt(mem.ssq))]
    /\ alt' = mem'
    /\ hist' = <<"dnrm2">>
    /\ UNCHANGED <<call, mem0, alt0>>

NextScalar ==
    \/ Call_drotg
    \/ Step_dnrm2
    \/ Return_dnrm2

SpecScalar == InitScalar /\ [][NextScalar]_vars

(***************************************************************************)
(* Claims about drotg and dnrm2                                            *)
(***************************************************************************)
\* C26: drotg(a, b) returns (c, s, r, z) = (1, 0, a, 0) whenever b == 0,
\* a == 0 included, and (0, 1, b, 1) when a == 0 and b != 0; otherwise r has
\* the sign of whichever of a, b is larger in absolute value (of b on a
\* tie), c is the quotient a/r, s the quotient b/r, and z is s if
\* |a| > |b|, else 1/c if c != 0, else 1.
C26_DrotgCases ==
    Returned("drotg") =>
        LET a == call.a
            b == call.b
            g == mem.ret
        IN  /\ b = 0 => g = [c |-> R(1), s |-> R(0), r |-> R(a), z |-> R(0)]
            /\ a = 0 /\ b # 0 => g = [c |-> R(0), s |-> R(1), r |-> R(b), z |-> R(1)]
            /\ a # 0 /\ b # 0 =>
                  /\ g.r[2] # 0 /\ g.r[1] # 0
                  /\ (g.r[1] < 0) = (IF Abs(a) > Abs(b) THEN a < 0 ELSE b < 0)
                  /\ g.c = RotgDiv(R(a), g.r)
                  /\ g.s = RotgDiv(R(b), g.r)
                  /\ g.z = IF Abs(a) > Abs(b) THEN g.s
                           ELSE IF g.c # R(0) THEN RotgDiv(R(1), g.c)
                           ELSE R(1)

\* drotg(-3, -3) has returned: a tie of two negative values, with r
\* negative, c and s positive and z = 1/c.
C26_Witness ==
    /\ Returned("drotg")
    /\ call.a = -3 /\ call.b = -3
    /\ mem.ret.r[1] < 0 /\ mem.ret.c[1] > 0 /\ mem.ret.s[1] > 0
    /\ mem.ret.z = rdiv(R(1), mem.ret.c)

\* drotg(1, 12) has returned with c == 0 and z == 1: the quotient a/r is too
\* small to be represented.
C26_WitnessTinyC ==
    /\ Returned("drotg")
    /\ call.a = 1 /\ call.b = 12
    /\ mem.ret.c = R(0) /\ mem.ret.z = R(1)

\* Logical element j of the vector of a dnrm2 call, in traversal order.
NrmElem(j) == Elem(mem0.x, call.n, call.incx, j)

\* C27: in dnrm2, after each processed element, scale is the largest
\* absolute value among the elements traversed so far (0 if all were zero)
\* and, in exact arithmetic, scale^2 * ssq is the sum of their squares, on
\* the unit-stride and on the strided path alike; the value returned is
\* scale*sqrt(ssq), which is 0 for n <= 0 and for a vector of zeros; x is
\* not written.
C27_Dnrm2ScaleAndSsq ==
    call.fn = "dnrm2" =>
        /\ \A j \in 0 .. mem.i - 1 : ~RLess(mem.scale, RAbs(NrmElem(j)))
        /\ mem.scale = R(0) \/ \E j \in 0 .. mem.i - 1 : RAbs(NrmElem(j)) = mem.scale
        /\ rmul(rmul(mem.scale, mem.scale), mem.ssq)
              = RSumTo(mem.i, [j \in 0 .. mem.i - 1 |-> rmul(NrmElem(j), NrmElem(j))])
        /\ mem.x = mem0.x
        /\ Returned("dnrm2") =>
              /\ mem.i = Max(call.n, 0)
              /\ mem.ret = IF call.n <= 0 THEN R(0) ELSE rmul(mem.scale, RSqrt(mem.ssq))
              /\ (call.n <= 0 \/ \A j \in 0 .. call.n - 1 : NrmElem(j) = R(0))
                    => mem.ret = R(0)

\* dnrm2(3, x, -2) has returned 13 for the logical vector (3, -4, 12): scale
\* was raised at each element, to 12 in the end, and ssq is 169/144.
C27_Witness ==
    /\ Returned("dnrm2")
    /\ call.n = 3 /\ call.incx = -2
    /\ NrmElem(0) = R(3) /\ NrmElem(1) = R(-4) /\ NrmElem(2) = R(12)
    /\ mem.scale = R(12) /\ mem.ssq = Frac(169, 144)
    /\ mem.ret = R(13)

(***************************************************************************)
(* Every kernel on buffers with poisoned surroundings.                     *)
(*                                                                         *)
(* The buffers of a valid call have exactly the length the call needs.     *)
(* mem0 and mem hold a run on ordinary contents; alt0 and alt hold the     *)
(* same call on buffers in which every element outside the views the       *)
(* arguments describe (a vector element between two strided positions, a   *)
(* matrix element in a row >= rows) is NaN.  An access outside a view      *)
(* brings a NaN into the result or removes one from the surroundings.      *)
(***************************************************************************)
\* The number of rows of the matrix argument held in field f.
ViewRows(f) ==
    CASE call.fn \in {"dgemv", "dger"} -> call.m
      [] call.fn \in {"dsymv", "dsyr", "dsyr2", "dtrmv", "dtrsv"} -> call.n
      [] call.fn = "dgemm" ->
            (IF f = "A" THEN (IF call.transA = "NoTranspose" THEN call.m ELSE call.k)
             ELSE IF f = "B" THEN (IF call.transB = "NoTranspose" THEN call.k ELSE call.n)
             ELSE call.m)
      [] call.fn \in {"dsymm", "dtrmm", "dtrsm"} ->
            (IF f = "A" THEN (IF call.side = "Left" THEN call.m ELSE call.n) ELSE call.m)
      [] OTHER ->
            (IF f = "C" THEN call.n
             ELSE IF call.trans = "NoTranspose" THEN call.n ELSE call.k)

\* Offset p of the buffer in field f belongs to the argument's view.
InView(f, p) ==
    CASE f = "x" -> p % Abs(call.incx) = 0
      [] f = "y" -> p % Abs(call.incy) = 0
      [] f = "A" -> p % call.ldA < ViewRows(f)
      [] f = "B" -> p % call.ldB < ViewRows(f)
      [] f = "C" -> p % call.ldC < ViewRows(f)

Buffers(b) == DOMAIN b \cap {"x", "y", "A", "B", "C"}

Poison == IF call.fn \in Triangular THEN <<0, 0>> ELSE NaN

Poisoned(b) ==
    [f \in DOMAIN b |->
        IF f \in Buffers(b)
        THEN [p \in DOMAIN b[f] |-> IF InView(f, p) THEN b[f][p] ELSE Poison]
        ELSE b[f]]

Level1 == L1TwoVec \cup L1OneVec \cup {"drot"}

InitBounds ==
    /\ call \in
            {c \in L1Calls : c.n <= MaxTri}
            \cup
            {c \in GemvCalls \cup GemmCalls \cup SymCalls \cup SyrkCalls :
                c.alpha = 2 /\ c.beta = -1}
            \cup
            {c \in TrsmCalls : c.alpha = 2}
            \cup
            {c \in SyrCalls : c.alpha = 2 /\ (c.fn = "dsyr" => c.incy = 1)}
            \cup
            TrmvCalls
            \cup
            {[fn |-> "dger", m |-> m, n |-> n, alpha |-> 2, incx |-> ix, incy |-> iy,
              ldA |-> Max(1, m) + pad] :
                m \in 0 .. MaxDim, n \in 0 .. MaxDim, ix \in Strides, iy \in Strides,
                pad \in Pads}
    /\ mem0 = CASE call.fn \in Level1 ->
                     [x |-> Vec(2, VecLen(call.n, call.incx)),
                      y |-> IF call.fn \in L1OneVec THEN <<>>
                            ELSE Vec(4, VecLen(call.n, call.incy))]
                [] call.fn = "dger" ->
                     [x |-> Mat(2, VecLen(call.m, call.incx)),
                      y |-> Mat(3, VecLen(call.n, call.incy)),
                      A |-> Mat(1, call.ldA * call.n),
                      err |-> ""]
                [] OTHER -> InOutMem(1)
    /\ mem = IF call.fn \in Level1
             THEN [x |-> mem0.x, y |-> mem0.y, ret |-> 0, tr |-> <<>>]
             ELSE mem0
    /\ alt0 = Poisoned(mem0)
    /\ alt = Poisoned(mem)
    /\ hist = <<>>

NextBounds ==
    \/ Call_daxpy
    \/ Call_dscal
    \/ Call_dcopy
    \/ Call_dswap
    \/ Call_ddot
    \/ Call_dasum
    \/ Call_idamax
    \/ Call_drot
    \/ Call_dgemv
    \/ Call_dsymv
    \/ Call_dtrmv
    \/ Call_dtrsv
    \/ Call_dger
    \/ Call_dsyr
    \/ Call_dsyr2
    \/ Call_dgemm
    \/ Call_dsymm
    \/ Call_dtrmm
    \/ Call_dtrsm
    \/ Call_dsyrk
    \/ Call_dsyr2k

SpecBounds == InitBounds /\ [][NextBounds]_vars

(***************************************************************************)
(* Claims about buffer bounds                                              *)
(***************************************************************************)
\* C28: for valid arguments every index a kernel reads or writes is in
\* bounds: a vector of length n and stride inc is accessed only at offsets
\* k*|inc|, 0 <= k <= n-1, and a matrix with leading dimension ld only at
\* i + j*ld with 0 <= i < rows.  On buffers of exactly the needed length,
\* the call raises nothing, the Level 1 kernels touch only offsets on the
\* stride, every element outside the views keeps its value, and with those
\* elements set to NaN the results inside the views and the returned value
\* are the same and the NaN are still in place.
C28_AccessesInBounds ==
    hist # <<>> =>
        /\ "err" \in DOMAIN mem => mem.err = "" /\ alt.err = ""
        /\ \A f \in Buffers(mem) :
              \A p \in DOMAIN mem[f] :
                  IF InView(f, p)
                  THEN alt[f][p] = mem[f][p]
                  ELSE alt[f][p] = Poison /\ mem[f][p] = mem0[f][p]
        /\ call.fn \in Level1 =>
              /\ alt.ret = mem.ret
              /\ alt.tr = mem.tr
              /\ \A k \in 1 .. Len(mem.tr) :
                    IF call.fn \in L1OneVec
                    THEN mem.tr[k] \in OnStride(call.n, call.incx)
                    ELSE /\ mem.tr[k][1] \in OnStride(call.n, call.incx)
                         /\ mem.tr[k][2] \in OnStride(call.n, call.incy)

\* dtrmv(Lower, NoTranspose, NonUnit, 3, A, ldA = 4, x, incx = -2) has
\* returned on the backward-walking path, with a NaN padding row in A and
\* NaN between the elements of x, and has changed x.
C28_Witness ==
    /\ Returned("dtrmv")
    /\ call.uplo = "Lower" /\ call.trans = "NoTranspose" /\ call.diag = "NonUnit"
    /\ call.n = 3 /\ call.ldA = 4 /\ call.incx = -2
    /\ alt0.A[3] = <<0, 0>> /\ alt0.x[1] = <<0, 0>> /\ alt0.x[3] = <<0, 0>>
    /\ alt.x # alt0.x

(***************************************************************************)
(* Claims about the state left by an argument error                        *)
(***************************************************************************)
\* C29: whenever a Level 2 or Level 3 routine raises an argument error it
\* has written nothing: every element of every vector and matrix argument
\* has the value it had at entry.
C29_RaisesBeforeFirstWrite ==
    call.fn \in Level2 \cup Level3 /\ Returned(call.fn) /\ mem.err # "" =>
        \A f \in Buffers(mem) : mem[f] = mem0[f]

\* dgemv(Transpose, 2, 2, alpha = 2, A, ldA = 1, x, -1, beta = -1, y, 2) has
\* raised on its leading dimension, with y as it was at entry.
C29_Witness ==
    /\ Returned("dgemv")
    /\ call.trans = "Transpose" /\ call.m = 2 /\ call.n = 2 /\ call.ldA = 1
    /\ call.incx = -1 /\ call.incy = 2
    /\ mem.err # ""
    /\ mem.y = mem0.y /\ mem0.y[0] # 0

(***************************************************************************)
(* Every routine on valid and on invalid arguments.  The calls are those   *)
(* of SpecBounds, the calls of SpecArgs and the calls of dnrm2.            *)
(***************************************************************************)
InitFrame ==
    \/ InitBounds
    \/ InitArgs
    \/ InitScalar /\ call.fn = "dnrm2"

NextFrame ==
    \/ NextBounds
    \/ Step_dnrm2
    \/ Return_dnrm2

SpecFrame == InitFrame /\ [][NextFrame]_vars

(***************************************************************************)
(* Claims about operands a routine leaves alone                            *)
(***************************************************************************)
\* The operands routine fn only reads.
InputOnly(fn) ==
    CASE fn \in {"daxpy", "dcopy", "ddot", "dnrm2", "dasum", "idamax"} -> {"x"}
      [] fn \in {"dgemv", "dsymv"} -> {"A", "x"}
      [] fn \in Triangular -> {"A"}
      [] fn \in {"dger", "dsyr", "dsyr2"} -> {"x", "y"}
      [] fn \in {"dgemm", "dsymm", "dsyrk", "dsyr2k"} -> {"A", "B"}
      [] OTHER -> {}

\* The vectors routine fn writes.
OutputVec(fn) ==
    CASE fn \in {"dscal", "dtrmv", "dtrsv"} -> {"x"}
      [] fn \in {"daxpy", "dcopy", "dgemv", "dsymv"} -> {"y"}
      [] fn \in {"dswap", "drot"} -> {"x", "y"}
      [] OTHER -> {}

\* Offset p of vector f lies between the positions its stride selects.
BetweenStrides(f, p) ==
    LET inc == IF f = "x" THEN call.incx ELSE call.incy
    IN  inc # 0 /\ p % Abs(inc) # 0

\* C30: input-only operands are never written, and the elements of an
\* output vector that lie between strided positions keep their values.
C30_InputsUnchanged ==
    hist # <<>> =>
        /\ \A f \in InputOnly(call.fn) \cap DOMAIN mem : mem[f] = mem0[f]
        /\ \A f \in OutputVec(call.fn) :
              \A p \in DOMAIN mem[f] : BetweenStrides(f, p) => mem[f][p] = mem0[f][p]

\* dgemv(NoTranspose, 2, 2, alpha, A, ldA, x, incx, beta, y, incy = -2) has
\* returned with both strided elements of y changed, the element between
\* them as at entry, and A and x as at entry.
C30_Witness ==
    /\ Returned("dgemv")
    /\ call.trans = "NoTranspose" /\ call.m = 2 /\ call.n = 2 /\ call.incy = -2
    /\ mem.err = ""
    /\ mem.y[0] # mem0.y[0] /\ mem.y[2] # mem0.y[2]
    /\ mem.y[1] = mem0.y[1]
    /\ mem.A = mem0.A /\ mem.x = mem0.x

=============================================================================
